---- MODULE Spec2Model ----
(***************************************************************************)
(* The ClaimIQ normalization Lambda (src/lambda/normalization) as a state  *)
(* machine: two handler invocations run concurrently against one Aurora    *)
(* store (claims, patients, payers, denials) and one audit table.  Every   *)
(* store call, the object-store read and the audit append may raise.       *)
(* Python strings are TLA+ strings; None / SQL NULL is the value None.     *)
(***************************************************************************)
EXTENDS Integers, Sequences, FiniteSets, TLC

(***************************************************************************)
(* Bounds of the model.                                                    *)
(***************************************************************************)
\* Number of handler invocations started in one behaviour.
MaxRuns == 2

\* The concurrently executing Lambda instances.
Workers == {1, 2}

(***************************************************************************)
(* Python values.                                                          *)
(***************************************************************************)
None == "<None>"
Absent == "<absent>"

\* Python truthiness of an optional string: None and '' are falsy.
Truthy(v) == v # None /\ v # ""

\* dict.get(key, default) on a dict modelled as a function.
Get(d, k, default) == IF k \in DOMAIN d THEN d[k] ELSE default

Range(s) == {s[k] : k \in DOMAIN s}

(***************************************************************************)
(* str methods.                                                            *)
(***************************************************************************)
Whitespace == {" ", "\t", "\n", "\r", "\f"}

CharAt(s, k) == SubSeq(s, k, k)

Min(S) == CHOOSE x \in S : \A y \in S : x <= y

\* str.find(sub, start) with 1-based positions; 0 when absent.
Find(s, sub, k) ==
    LET hits == {p \in k..(Len(s) - Len(sub) + 1) : SubSeq(s, p, p + Len(sub) - 1) = sub}
    IN  IF hits = {} THEN 0 ELSE Min(hits)

\* str.split(sep)
RECURSIVE Split(_, _)
Split(s, sep) ==
    LET p == Find(s, sep, 1)
    IN  IF p = 0 THEN <<s>>
        ELSE <<SubSeq(s, 1, p - 1)>> \o Split(SubSeq(s, p + Len(sep), Len(s)), sep)

\* str.replace(old, new)
RECURSIVE Replace(_, _, _)
Replace(s, old, new) ==
    LET p == Find(s, old, 1)
    IN  IF p = 0 THEN s
        ELSE SubSeq(s, 1, p - 1) \o new \o Replace(SubSeq(s, p + Len(old), Len(s)), old, new)

RECURSIVE LStrip(_)
LStrip(s) == IF s # "" /\ CharAt(s, 1) \in Whitespace THEN LStrip(Tail(s)) ELSE s

RECURSIVE RStrip(_)
RStrip(s) ==
    IF s # "" /\ CharAt(s, Len(s)) \in Whitespace THEN RStrip(SubSeq(s, 1, Len(s) - 1)) ELSE s

\* str.strip()
Strip(s) == RStrip(LStrip(s))

Upper26 == "ABCDEFGHIJKLMNOPQRSTUVWXYZ"
Lower26 == "abcdefghijklmnopqrstuvwxyz"

LowerChar(c) ==
    LET p == Find(Upper26, c, 1) IN IF p = 0 THEN c ELSE CharAt(Lower26, p)

\* str.lower(), and SQL LOWER()
RECURSIVE Lower(_)
Lower(s) ==
    IF s = "" THEN ""
    ELSE IF Len(s) = 1 THEN LowerChar(s)
    ELSE Lower(SubSeq(s, 1, Len(s) \div 2)) \o Lower(SubSeq(s, Len(s) \div 2 + 1, Len(s)))

\* [f(x) for x in xs]
StripAll(xs) == [k \in DOMAIN xs |-> Strip(xs[k])]

(***************************************************************************)
(* float(): Python's decimal float grammar.  A finite float is kept as the *)
(* exact decimal m * 10^e with m not divisible by 10 (binary rounding is   *)
(* not modelled); inf and nan are kept as such.                            *)
(***************************************************************************)
ValueError == [kind |-> "ValueError"]
Digits == {"0", "1", "2", "3", "4", "5", "6", "7", "8", "9"}

DigitVal(c) == Find("0123456789", c, 1) - 1

\* End (exclusive) of the longest digitpart  digit (["_"] digit)*  from k.
RECURSIVE DigitRunEnd(_, _)
DigitRunEnd(s, k) ==
    IF k > Len(s) \/ CharAt(s, k) \notin Digits THEN k
    ELSE IF k + 1 <= Len(s) /\ CharAt(s, k + 1) \in Digits THEN DigitRunEnd(s, k + 1)
    ELSE IF k + 2 <= Len(s) /\ CharAt(s, k + 1) = "_" /\ CharAt(s, k + 2) \in Digits
         THEN DigitRunEnd(s, k + 2)
    ELSE k + 1

RECURSIVE StrToNat(_, _)
StrToNat(s, acc) ==
    IF s = "" THEN acc
    ELSE IF CharAt(s, 1) = "_" THEN StrToNat(Tail(s), acc)
    ELSE StrToNat(Tail(s), 10 * acc + DigitVal(CharAt(s, 1)))

RECURSIVE Normalize(_, _, _)
Normalize(neg, m, e) ==
    IF m = 0 THEN [kind |-> "float", neg |-> neg, m |-> 0, e |-> 0]
    ELSE IF m % 10 = 0 THEN Normalize(neg, m \div 10, e + 1)
    ELSE [kind |-> "float", neg |-> neg, m |-> m, e |-> e]

Zero == Normalize(FALSE, 0, 0)

PyFloat(str) ==
    LET s == Strip(str)
        signed == s # "" /\ CharAt(s, 1) \in {"+", "-"}
        neg == s # "" /\ CharAt(s, 1) = "-"
        p1 == IF signed THEN 2 ELSE 1
        body == Lower(SubSeq(s, p1, Len(s)))
        intEnd == DigitRunEnd(s, p1)
        hasDot == intEnd <= Len(s) /\ CharAt(s, intEnd) = "."
        fracStart == IF hasDot THEN intEnd + 1 ELSE intEnd
        fracEnd == IF hasDot THEN DigitRunEnd(s, fracStart) ELSE intEnd
        hasExp == fracEnd <= Len(s) /\ CharAt(s, fracEnd) \in {"e", "E"}
        expSigned == hasExp /\ fracEnd + 1 <= Len(s) /\ CharAt(s, fracEnd + 1) \in {"+", "-"}
        expNeg == expSigned /\ CharAt(s, fracEnd + 1) = "-"
        expStart == IF expSigned THEN fracEnd + 2 ELSE fracEnd + 1
        expEnd == IF hasExp THEN DigitRunEnd(s, expStart) ELSE fracEnd
        intDigits == SubSeq(s, p1, intEnd - 1)
        fracDigits == Replace(SubSeq(s, fracStart, fracEnd - 1), "_", "")
        expVal == IF hasExp THEN StrToNat(SubSeq(s, expStart, expEnd - 1), 0) ELSE 0
        wellFormed == /\ intEnd > p1 \/ fracEnd > fracStart
                      /\ hasExp => expEnd > expStart
                      /\ expEnd = Len(s) + 1
    IN  IF body \in {"inf", "infinity"} THEN [kind |-> "inf", neg |-> neg]
        ELSE IF body = "nan" THEN [kind |-> "nan"]
        ELSE IF ~wellFormed THEN ValueError
        ELSE Normalize(neg, StrToNat(intDigits \o fracDigits, 0),
                       (IF expNeg THEN 0 - expVal ELSE expVal) - Len(fracDigits))

\* A faulty conversion, which C23 must reject: the comma separators stay.
AmountNumericKeepsCommas(amount) ==
    LET f == PyFloat(Replace(Replace(amount, "₹", ""), "Rs.", ""))
    IN  IF f = ValueError THEN Zero ELSE f

\* float(amount.replace(',', '').replace('₹', '').replace('Rs.', '')), 0.0 on
\* any exception.
AmountNumeric(amount) ==
    LET f == PyFloat(Replace(Replace(Replace(amount, ",", ""), "₹", ""), "Rs.", ""))
    IN  IF f = ValueError THEN Zero ELSE f

(***************************************************************************)
(* CSV extraction.                                                         *)
(***************************************************************************)
\* Index of the last element of xs equal to x (a later dict key overwrites).
LastIndexOf(xs, x) ==
    CHOOSE k \in DOMAIN xs : xs[k] = x /\ \A j \in DOMAIN xs : j > k => xs[j] # x

\* dict(zip(keys, vals))
DictZip(keys, vals) == [h \in Range(keys) |-> vals[LastIndexOf(keys, h)]]

CsvLines(csv_text) == Split(Strip(csv_text), "\n")

CsvHeaders(csv_text) == StripAll(Split(CsvLines(csv_text)[1], ","))

\* A faulty row filter, which C22 must reject: a line with more cells than
\* the header is kept, zip() dropping the extra cells.
CsvRowsKeepsLongLines(csv_text) ==
    LET headers == StripAll(Split(Split(Strip(csv_text), "\n")[1], ","))
        kept == SelectSeq(Tail(Split(Strip(csv_text), "\n")),
                          LAMBDA line : /\ Strip(line) # ""
                                        /\ Len(Split(line, ",")) >= Len(headers))
    IN  [k \in DOMAIN kept |->
            [h \in Range(headers) |->
                Strip(Split(kept[k], ",")[CHOOSE j \in DOMAIN headers :
                    headers[j] = h /\ \A i \in DOMAIN headers : i > j => headers[i] # h])]]

\* The rows kept by process_csv_file: non-blank data lines whose cell count
\* equals the header count, in file order, each as a dict keyed by header.
CsvRows(csv_text) ==
    LET headers == CsvHeaders(csv_text)
        kept == SelectSeq(Tail(CsvLines(csv_text)),
                          LAMBDA line : /\ Strip(line) # ""
                                        /\ Len(Split(line, ",")) = Len(headers))
    IN  [k \in DOMAIN kept |-> DictZip(headers, StripAll(Split(kept[k], ",")))]

ClaimFields ==
    {"claim_number", "policy_number", "patient_name", "hospital_name",
     "claim_amount", "denied_amount", "denial_reason"}

column_mappings ==
    [claim_number  |-> <<"claim_no", "claim_number", "claimno", "claim_id">>,
     policy_number |-> <<"policy_no", "policy_number", "policyno", "policy_id">>,
     patient_name  |-> <<"patient_name", "patient", "name", "member_name">>,
     hospital_name |-> <<"hospital_name", "hospital", "provider_name", "provider">>,
     claim_amount  |-> <<"claim_amount", "amount", "total_amount", "bill_amount">>,
     denied_amount |-> <<"denied_amount", "denial_amount", "rejected_amount">>,
     denial_reason |-> <<"denial_reason", "reason", "rejection_reason", "remarks">>]

NormalizeHeader(h) == Replace(Replace(Lower(h), " ", "_"), "-", "_")

header_map(headers) ==
    LET keys == [k \in DOMAIN headers |-> NormalizeHeader(headers[k])]
    IN  DictZip(keys, headers)

\* The synonym columns of a field that are present with a non-empty cell in
\* first_row, as indexes into the field's synonym list.
MatchingColumns(field, headers, first_row) ==
    LET cols == column_mappings[field]
        hm == header_map(headers)
    IN  {k \in DOMAIN cols :
            /\ cols[k] \in DOMAIN hm
            /\ hm[cols[k]] \in DOMAIN first_row
            /\ first_row[hm[cols[k]]] # ""
            /\ Strip(first_row[hm[cols[k]]]) # ""}

\* A faulty extraction, which C21 must reject: the values are read from the
\* last row.
parse_csv_last_row(headers, rows) ==
    LET last == IF rows = <<>> THEN <<>> ELSE rows[Len(rows)]
        found == IF rows = <<>> THEN {}
                 ELSE {f \in ClaimFields : MatchingColumns(f, headers, last) # {}}
        value(f) == LET col == column_mappings[f][Min(MatchingColumns(f, headers, last))]
                    IN  Strip(last[header_map(headers)[col]])
    IN  [f \in found \cup {"total_records", "columns_available"} |->
            IF f = "total_records" THEN Len(rows)
            ELSE IF f = "columns_available" THEN headers
            ELSE value(f)]

parse_csv_claim_data(headers, rows) ==
    LET found == IF rows = <<>> THEN {}
                 ELSE {f \in ClaimFields : MatchingColumns(f, headers, rows[1]) # {}}
        value(f) == LET col == column_mappings[f][Min(MatchingColumns(f, headers, rows[1]))]
                    IN  Strip(rows[1][header_map(headers)[col]])
    IN  [f \in found \cup {"total_records", "columns_available"} |->
            IF f = "total_records" THEN Len(rows)
            ELSE IF f = "columns_available" THEN headers
            ELSE value(f)]

process_csv_file(file_content) ==
    LET headers == CsvHeaders(file_content)
        rows == CsvRows(file_content)
        parsed_data == parse_csv_claim_data(headers, rows)
    IN  [processing_type |-> "csv_parsed",
         headers |-> headers,
         rows |-> rows,
         parsed_data |-> parsed_data,
         summary |-> [total_rows |-> Len(rows),
                      total_columns |-> Len(headers),
                      fields_extracted |-> Cardinality(DOMAIN parsed_data)]]

(***************************************************************************)
(* Spreadsheet extraction: structural information only.                    *)
(***************************************************************************)
process_excel_file(file_content) ==
    [processing_type |-> "excel_basic",
     parsed_data |-> [file_type |-> "excel",
                      file_size |-> Len(file_content),
                      processing_note |-> "Excel parsing requires additional libraries - marked for manual review"],
     requires_manual_processing |-> TRUE,
     summary |-> [file_size |-> Len(file_content),
                  processing_status |-> "basic_info_only"]]

(***************************************************************************)
(* PDF extraction: re.search of the nine patterns of parse_claim_text over *)
(* the lowercased text, by a backtracking matcher.  A pattern is a prefix  *)
(* (a sequence of elements) followed by its capture group (a sequence of   *)
(* elements); an element's matches are listed in the regex engine's order  *)
(* of preference (greedy first).                                           *)
(***************************************************************************)
Letters == {CharAt(Lower26, k) : k \in 1..26} \cup {CharAt(Upper26, k) : k \in 1..26}

Lit(str) == [kind |-> "alt", opts |-> <<str>>]
Alt(opts) == [kind |-> "alt", opts |-> opts]
Opt(opts) == [kind |-> "alt", opts |-> opts \o <<"">>]
Rep(cls, lo, hi) == [kind |-> "rep", cls |-> cls, lo |-> lo, hi |-> hi]
OptSeq(elems) == [kind |-> "optseq", elems |-> elems]

\* Upper limit of an unbounded repetition: no modelled text is longer.
Unbounded == 1000000

Star(cls) == Rep(cls, 0, Unbounded)
Plus(cls) == Rep(cls, 1, Unbounded)

\* Length of the run of characters of cls from position pos, at most hi.
RECURSIVE RunLength(_, _, _, _)
RunLength(text, pos, cls, hi) ==
    IF hi = 0 \/ pos > Len(text) \/ CharAt(text, pos) \notin cls THEN 0
    ELSE 1 + RunLength(text, pos + 1, cls, hi - 1)

RECURSIVE MatchSeq(_, _, _)
RECURSIVE MatchEach(_, _, _)

\* The positions after a match of one element at pos, most preferred first.
MatchElem(text, pos, el) ==
    IF el.kind = "alt"
    THEN LET hits == SelectSeq(el.opts,
                       LAMBDA o : /\ pos + Len(o) - 1 <= Len(text)
                                  /\ SubSeq(text, pos, pos + Len(o) - 1) = o)
         IN  [k \in DOMAIN hits |-> pos + Len(hits[k])]
    ELSE IF el.kind = "rep"
    THEN LET n == RunLength(text, pos, el.cls, el.hi)
         IN  IF n < el.lo THEN <<>>
             ELSE [k \in 1..(n - el.lo + 1) |-> pos + n - (k - 1)]
    ELSE MatchSeq(text, pos, el.elems) \o <<pos>>

\* The positions after a match of the element sequence at pos, in order.
MatchSeq(text, pos, elems) ==
    IF elems = <<>> THEN <<pos>>
    ELSE MatchEach(text, MatchElem(text, pos, Head(elems)), Tail(elems))

MatchEach(text, starts, elems) ==
    IF starts = <<>> THEN <<>>
    ELSE MatchSeq(text, Head(starts), elems) \o MatchEach(text, Tail(starts), elems)

\* group(1) of the first capture match over the given capture starts.
RECURSIVE CaptureFrom(_, _, _)
CaptureFrom(text, starts, capture) ==
    IF starts = <<>> THEN Absent
    ELSE LET ends == MatchSeq(text, Head(starts), capture)
         IN  IF ends # <<>> THEN SubSeq(text, Head(starts), Head(ends) - 1)
             ELSE CaptureFrom(text, Tail(starts), capture)

\* re.search(pattern, text).group(1), Absent when there is no match: the
\* match at the leftmost start position that has one.
Search(text, pat) ==
    LET at(p) == CaptureFrom(text, MatchSeq(text, p, pat.prefix), pat.capture)
        starts == {p \in 1..(Len(text) + 1) : at(p) # Absent}
    IN  IF starts = {} THEN Absent ELSE at(Min(starts))

Space == Whitespace
IdChars == Letters \cup Digits \cup {"-", "/"}
DateCapture == <<Rep(Digits, 1, 2), Alt(<<"/", "-">>), Rep(Digits, 1, 2),
                 Alt(<<"/", "-">>), Rep(Digits, 2, 4)>>
AmountCapture == <<Plus(Digits \cup {","}), OptSeq(<<Lit("."), Rep(Digits, 2, 2)>>)>>
Labelled(word1, word2s) == <<Lit(word1), Star(Space), Alt(word2s), Star(Space \cup {":"})>>
Currency == <<Opt(<<"rs.", "rs", "₹">>), Star(Space)>>

patterns ==
    [claim_number   |-> [prefix |-> Labelled("claim", <<"no", "number", "#">>),
                         capture |-> <<Plus(IdChars)>>],
     policy_number  |-> [prefix |-> Labelled("policy", <<"no", "number", "#">>),
                         capture |-> <<Plus(IdChars)>>],
     patient_name   |-> [prefix |-> Labelled("patient", <<"name">>),
                         capture |-> <<Plus(Letters \cup Space)>>],
     hospital_name  |-> [prefix |-> Labelled("hospital", <<"name">>),
                         capture |-> <<Plus(Letters \cup Space \cup {"&", "."})>>],
     admission_date |-> [prefix |-> Labelled("admission", <<"date">>),
                         capture |-> DateCapture],
     discharge_date |-> [prefix |-> Labelled("discharge", <<"date">>),
                         capture |-> DateCapture],
     claim_amount   |-> [prefix |-> Labelled("claim", <<"amount">>) \o Currency,
                         capture |-> AmountCapture],
     denied_amount  |-> [prefix |-> Labelled("denied", <<"amount">>) \o Currency,
                         capture |-> AmountCapture],
     denial_reason  |-> [prefix |-> Labelled("denial", <<"reason">>),
                         capture |-> <<Plus(Letters \cup Space \cup {",", ".", "-"})>>]]

parse_claim_text(text) ==
    LET text_lower == Lower(text)
        found == {f \in DOMAIN patterns : Search(text_lower, patterns[f]) # Absent}
    IN  [f \in found |-> Strip(Search(text_lower, patterns[f]))]

\* "".join(text + "\n" for each LINE block)
RECURSIVE JoinLines(_)
JoinLines(lines) == IF lines = <<>> THEN "" ELSE Head(lines) \o "\n" \o JoinLines(Tail(lines))

\* textract_client.detect_document_text: the Text of the LINE blocks of a
\* document, which is modelled by the lines printed on it.
DetectedLines(file_content) ==
    IF file_content = "" THEN <<>> ELSE Split(file_content, "\n")

\* blocks: the text of the LINE blocks the text-detection oracle returned.
process_pdf_file(blocks) ==
    LET extracted_text == JoinLines(blocks)
        parsed_data == parse_claim_text(extracted_text)
    IN  [processing_type |-> "pdf_textract",
         parsed_data |-> parsed_data,
         summary |-> [total_blocks |-> Len(blocks),
                      total_characters |-> Len(extracted_text),
                      fields_extracted |-> Cardinality(DOMAIN parsed_data)]]

(***************************************************************************)
(* The stores.  The claims table is created upstream; the object store is  *)
(* read-only for this code.                                                *)
(***************************************************************************)
VARIABLES
    claims,       \* claims table: claim_id -> row
    patients,     \* patients table: set of rows
    payers,       \* payers table: set of rows
    denials,      \* denials table: set of rows
    agent_logs,   \* audit table: set of items (timestamps left out)
    inv,          \* per worker: the running invocation's locals and position
    runs,         \* invocations started so far
    overlap       \* history: per resolver, whether two calls ever overlapped

vars == <<claims, patients, payers, denials, agent_logs, inv, runs, overlap>>

ClaimRow(tenant_id, hospital_id, original_filename, content_type, s3_key, status) ==
    [tenant_id |-> tenant_id, hospital_id |-> hospital_id,
     original_filename |-> original_filename, content_type |-> content_type,
     file_size |-> 64, s3_bucket |-> "claims-bucket", s3_key |-> s3_key,
     status |-> status, error_message |-> None,
     claim_number |-> None, patient_id |-> None, payer_id |-> None,
     denial_id |-> None, claim_amount |-> Zero]

\* The uploaded claims of the scenario: a well-formed CSV claim, an archive
\* upload, and a CSV claim with neither a claim number nor a file name.
UploadedClaims ==
    [c1 |-> ClaimRow("tA", "h1", "jane.csv", "text/csv", "k1", "UPLOAD_PENDING"),
     c2 |-> ClaimRow("tA", "h1", "scan.zip", "application/zip", "k2", "NEW"),
     c3 |-> ClaimRow("tB", "h2", None, "text/csv; charset=utf-8", "k3", "NEW")]

\* s3_client.get_object(Bucket, Key)['Body'].read()
S3Object(bucket, key) ==
    CASE key = "k1" -> "claim_no,patient,amount\nCLM-100,Jane Roe,15000.50"
      [] key = "k2" -> "PK"
      [] key = "k3" -> "patient,reason\njane roe,not covered\n"
      [] key = "k4" -> "Claim No,Patient,Hospital\nCLM-200,Jane Roe,City Care"
      [] key = "k5" -> "claim_no,patient,hospital\nCLM-201,jane roe,CITY CARE\n"
      [] key = "k7" -> "claim_no,amount,denied_amount\nCLM-300,-500.00,-20"
      [] key = "k8" -> "claim_no,patient,hospital,amount\nCLM-202,Jane Roe,Metro Clinic,900"
      [] key = "k6" -> "Claim No: CLM-9\nPatient Name: Jane Roe\nClaim Amount: Rs. 1,200.00"

\* A second scenario, for the resolvers: the same patient and hospital
\* names under two tenants, and under one tenant in another letter case.
TenantClaims ==
    [c1 |-> ClaimRow("tA", "h1", "a.csv", "text/csv", "k4", "NEW"),
     c2 |-> ClaimRow("tB", "h2", "b.csv", "text/csv", "k4", "NEW"),
     c3 |-> ClaimRow("tA", "h1", "c.csv", "text/csv", "k5", "NEW")]

\* A third scenario, for claims without names: two spreadsheets under two
\* tenants, and a CSV file that names nobody and carries signed amounts.
NamelessClaims ==
    [c1 |-> ClaimRow("tA", "h1", "claims.xls", "application/vnd.ms-excel", "k2", "NEW"),
     c2 |-> ClaimRow("tA", "h1", "refund.csv", "text/csv", "k7", "NEW"),
     c3 |-> ClaimRow("tB", "h2", "claims.xlsx",
                     "application/vnd.openxmlformats-officedocument.spreadsheetml.sheet",
                     "k2", "NEW")]

\* A fifth scenario, for the payer: three claims of one tenant and one
\* patient, two of them of one hospital written in two letter cases.
HospitalClaims ==
    [c1 |-> ClaimRow("tA", "h1", "a.csv", "text/csv", "k4", "NEW"),
     c2 |-> ClaimRow("tA", "h1", "b.csv", "text/csv", "k8", "NEW"),
     c3 |-> ClaimRow("tA", "h1", "c.csv", "text/csv", "k5", "NEW")]

\* event['claim_id'] of the invocations: key absent, the empty string, the
\* uploaded claims, and an id with no row.
EventClaimIds == {Absent, "", "c1", "c2", "c3", "c9"}

ClaimStatuses ==
    {"NEW", "UPLOAD_PENDING", "DENIED", "AI_ANALYZED", "HUMAN_REVIEW",
     "SUBMITTED", "RECOVERED", "FAILED", "MANUAL_REVIEW_REQUIRED"}

\* event.get('claim_id', default)
EventGet(claim_id, default) == IF claim_id = Absent THEN default ELSE claim_id

\* What a history snapshot keeps of a claim row.
Snapshot(claim_id) ==
    IF claim_id \in DOMAIN claims
    THEN [status |-> claims[claim_id].status,
          error_message |-> claims[claim_id].error_message]
    ELSE [status |-> None, error_message |-> None]

Idle ==
    [pc |-> "idle", claim_id |-> Absent, claim_info |-> <<>>,
     processing_result |-> <<>>, patient_id |-> None, payer_id |-> None,
     denial_id |-> None, error |-> None, result |-> <<>>,
     trace |-> <<>>, solo |-> TRUE,
     before |-> [status |-> None, error_message |-> None]]

Init ==
    /\ claims = UploadedClaims
    /\ patients = {}
    /\ payers = {}
    /\ denials = {}
    /\ agent_logs = {}
    /\ inv = [w \in Workers |-> Idle]
    /\ runs = 0
    /\ overlap = [patients |-> FALSE, payers |-> FALSE]

TenantInit ==
    /\ claims = TenantClaims
    /\ patients = {}
    /\ payers = {}
    /\ denials = {}
    /\ agent_logs = {}
    /\ inv = [w \in Workers |-> Idle]
    /\ runs = 0
    /\ overlap = [patients |-> FALSE, payers |-> FALSE]

NamelessInit ==
    /\ claims = NamelessClaims
    /\ patients = {}
    /\ payers = {}
    /\ denials = {}
    /\ agent_logs = {}
    /\ inv = [w \in Workers |-> Idle]
    /\ runs = 0
    /\ overlap = [patients |-> FALSE, payers |-> FALSE]

\* A fourth scenario, for the status write: the well-formed CSV claim, in
\* any status of the enumeration.
StatusInit ==
    /\ \E status \in ClaimStatuses :
          claims = [c \in {"c1"} |->
                      ClaimRow("tA", "h1", "jane.csv", "text/csv", "k1", status)]
    /\ patients = {}
    /\ payers = {}
    /\ denials = {}
    /\ agent_logs = {}
    /\ inv = [w \in Workers |-> Idle]
    /\ runs = 0
    /\ overlap = [patients |-> FALSE, payers |-> FALSE]

HospitalInit ==
    /\ claims = HospitalClaims
    /\ patients = {}
    /\ payers = {}
    /\ denials = {}
    /\ agent_logs = {}
    /\ inv = [w \in Workers |-> Idle]
    /\ runs = 0
    /\ overlap = [patients |-> FALSE, payers |-> FALSE]

Active(w) == inv[w].pc \notin {"idle", "done"}

\* A history entry: the call made, whether it returned (TRUE) or raised, and
\* for an UPDATE of claims.status the value it carried.
Did(op, ok) == [op |-> op, ok |-> ok, status |-> None]
DidStatus(op, ok, status) == [op |-> op, ok |-> ok, status |-> status]

\* A result is handed to its caller before any other step is taken: the
\* instance at pc is the one to move only when no result is waiting.
At(w, pc) == inv[w].pc = pc /\ \A j \in Workers : inv[j].pc # "done"

\* A faulty identifier, which C14 must reject: the same for every row.
Uuid4Repeated(prefix, table) == prefix \o "1"

\* str(uuid.uuid4()): an identifier no row of the table carries.
Uuid4(prefix, table) == prefix \o ToString(Cardinality(table) + 1)

(***************************************************************************)
(* Control flow of lambda_handler and create_normalized_entities: the next *)
(* position after a step that did not raise.  A step that raises goes to   *)
(* the handler's except clause.                                            *)
(***************************************************************************)
\* A faulty ordering, which C2 must reject: the status is written before
\* the claim update.
ThenStatusFirst(pc) ==
    CASE pc = "lambda_handler"           -> "get_claim_info"
      [] pc = "get_claim_info"           -> "process_claim_file"
      [] pc = "process_claim_file"       -> "validate_entity_data"
      [] pc = "validate_entity_data"     -> "create_or_update_patient"
      [] pc = "create_or_update_patient" -> "create_or_update_payer"
      [] pc = "insert_patient"           -> "create_or_update_payer"
      [] pc = "create_or_update_payer"   -> "create_denial_entity"
      [] pc = "insert_payer"             -> "create_denial_entity"
      [] pc = "create_denial_entity"     -> "update_claim_status"
      [] pc = "update_claim_status"      -> "update_claim_entity"
      [] pc = "update_claim_entity"      -> "log_success"
      [] pc = "log_success"              -> "done"
      [] pc = "except"                   -> "done"

\* A faulty ordering, which C26 must reject: the denial is inserted right
\* after the patient is resolved.
ThenSkipsPayer(pc) ==
    CASE pc = "lambda_handler"           -> "get_claim_info"
      [] pc = "get_claim_info"           -> "process_claim_file"
      [] pc = "process_claim_file"       -> "validate_entity_data"
      [] pc = "validate_entity_data"     -> "create_or_update_patient"
      [] pc = "create_or_update_patient" -> "create_denial_entity"
      [] pc = "insert_patient"           -> "create_denial_entity"
      [] pc = "create_or_update_payer"   -> "create_denial_entity"
      [] pc = "insert_payer"             -> "create_denial_entity"
      [] pc = "create_denial_entity"     -> "update_claim_entity"
      [] pc = "update_claim_entity"      -> "update_claim_status"
      [] pc = "update_claim_status"      -> "log_success"
      [] pc = "log_success"              -> "done"
      [] pc = "except"                   -> "done"

Then(pc) ==
    CASE pc = "lambda_handler"           -> "get_claim_info"
      [] pc = "get_claim_info"           -> "process_claim_file"
      [] pc = "process_claim_file"       -> "validate_entity_data"
      [] pc = "validate_entity_data"     -> "create_or_update_patient"
      [] pc = "create_or_update_patient" -> "create_or_update_payer"
      [] pc = "insert_patient"           -> "create_or_update_payer"
      [] pc = "create_or_update_payer"   -> "create_denial_entity"
      [] pc = "insert_payer"             -> "create_denial_entity"
      [] pc = "create_denial_entity"     -> "update_claim_entity"
      [] pc = "update_claim_entity"      -> "update_claim_status"
      [] pc = "update_claim_status"      -> "log_success"
      [] pc = "log_success"              -> "done"
      [] pc = "except"                   -> "done"

\* The status written by the last pipeline step and by the except clause.
StatusOnSuccess == "DENIED"
StatusOnFailure == "MANUAL_REVIEW_REQUIRED"

Note(loc, op, ok) == [loc EXCEPT !.trace = Append(@, Did(op, ok))]
NoteStatus(loc, op, ok, status) == [loc EXCEPT !.trace = Append(@, DidStatus(op, ok, status))]
Advance(loc) == [loc EXCEPT !.pc = Then(loc.pc)]
\* Faulty handlers.  C1 must reject the one in which the except clause and
\* the audit do not catch what their own calls raise; C8 the one in which a
\* failed validation is recorded but does not stop the pipeline.
CatchPropagates(pc) == IF pc \in {"log_success", "except"} THEN "escaped" ELSE "except"
CatchResumesAfterValidation(pc) ==
    IF pc \in {"log_success", "except", "validate_entity_data"} THEN Then(pc) ELSE "except"

\* A faulty handler, which C20 must reject: a failed audit of a success is
\* handled as a failure of the pipeline.
CatchAuditFailure(pc) == IF pc = "except" THEN Then(pc) ELSE "except"

\* Where control resumes when the step at pc raises.  The try block of
\* lambda_handler catches whatever the pipeline raises (line 93);
\* log_normalization_event and mark_for_manual_review catch their own
\* exceptions (lines 762, 737), so their caller carries on.
Catch(pc) == IF pc \in {"log_success", "except"} THEN Then(pc) ELSE "except"

\* except Exception as e: the handler's except clause takes over with str(e).
Raise(loc, msg) == [loc EXCEPT !.pc = Catch(loc.pc), !.error = msg]

\* A call that catches its own exception: the caller resumes either way.
Resume(loc, ok) == [loc EXCEPT !.pc = IF ok THEN Then(loc.pc) ELSE Catch(loc.pc)]

DatabaseError == "An error occurred (BadRequestException) when calling the ExecuteStatement operation"
S3Error == "An error occurred (InternalError) when calling the GetObject operation"
TextractError == "An error occurred (ThrottlingException) when calling the DetectDocumentText operation"

(***************************************************************************)
(* lambda_handler lines 66-75 with get_claim_info: the event is read and   *)
(* the claim looked up.  A store error and a missing row both come back as *)
(* None and raise "Claim not found".                                       *)
(***************************************************************************)
ClaimInfo(claim_id) ==
    [claim_id |-> claim_id,
     tenant_id |-> claims[claim_id].tenant_id,
     hospital_id |-> claims[claim_id].hospital_id,
     original_filename |-> claims[claim_id].original_filename,
     content_type |-> claims[claim_id].content_type,
     file_size |-> claims[claim_id].file_size,
     s3_bucket |-> claims[claim_id].s3_bucket,
     s3_key |-> claims[claim_id].s3_key,
     status |-> claims[claim_id].status]

ReadEvent(loc) ==
    IF Truthy(EventGet(loc.claim_id, None)) THEN Advance(loc)
    ELSE Raise(loc, "Missing claim_id in event")

GetClaimInfo(loc, fault) ==
    LET noted == Note(loc, "select_claim", ~fault)
    IN  IF ~fault /\ loc.claim_id \in DOMAIN claims
        THEN [Advance(noted) EXCEPT !.claim_info = ClaimInfo(loc.claim_id)]
        ELSE Raise(noted, "Claim not found: " \o loc.claim_id)

\* A free instance takes the next event (the lowest-numbered free one: the
\* instances are interchangeable).
Start(w) ==
    /\ At(w, "idle")
    /\ \A j \in Workers : j < w => inv[j].pc # "idle"
    /\ runs < MaxRuns
    /\ \E claim_id \in EventClaimIds, fault \in BOOLEAN :
          LET sameClaim(j) == j # w /\ Active(j) /\ inv[j].claim_id = claim_id
              loc == ReadEvent([Idle EXCEPT !.pc = "lambda_handler",
                                            !.claim_id = claim_id,
                                            !.before = Snapshot(claim_id),
                                            !.solo = ~\E j \in Workers : sameClaim(j)])
              started == IF loc.pc = "get_claim_info" THEN GetClaimInfo(loc, fault) ELSE loc
          IN  inv' = [j \in Workers |->
                        IF j = w THEN started
                        ELSE IF sameClaim(j) THEN [inv[j] EXCEPT !.solo = FALSE]
                        ELSE inv[j]]
    /\ runs' = runs + 1
    /\ UNCHANGED <<claims, patients, payers, denials, agent_logs, overlap>>

(***************************************************************************)
(* process_claim_file: object-store read, then dispatch on the content     *)
(* type without its parameters.                                            *)
(***************************************************************************)
PdfType == "application/pdf"
ExcelTypes == {"application/vnd.ms-excel",
               "application/vnd.openxmlformats-officedocument.spreadsheetml.sheet"}
CsvType == "text/csv"

\* A faulty dispatch, which C24 must reject: the type is compared with its
\* parameters.
MediaTypeWithParameters(content_type) == Strip(content_type)

MediaType(content_type) == Strip(Split(content_type, ";")[1])

\* The calls of process_claim_file that may raise, given the claim.
FileFaults(claim_info) ==
    IF claim_info.content_type = None THEN {"none"}
    ELSE IF MediaType(claim_info.content_type) = PdfType THEN {"none", "s3", "textract"}
    ELSE {"none", "s3"}

process_claim_file(loc, fault) ==
    LET info == loc.claim_info
        content_type == MediaType(info.content_type)
        file_content == S3Object(info.s3_bucket, info.s3_key)
        got == Note(loc, "s3_get", TRUE)
        extracted(processing_result) ==
            [Advance(Note(got, "extract", TRUE)) EXCEPT !.processing_result = processing_result]
    IN  IF info.content_type = None
        THEN Raise(loc, "'NoneType' object has no attribute 'split'")
        ELSE IF fault = "s3"
        THEN Raise(Note(loc, "s3_get", FALSE), S3Error)
        ELSE IF content_type = PdfType
        THEN IF fault = "textract"
             THEN Raise(Note(got, "extract", FALSE), TextractError)
             ELSE extracted(process_pdf_file(DetectedLines(file_content)))
        ELSE IF content_type \in ExcelTypes
        THEN extracted(process_excel_file(file_content))
        ELSE IF content_type = CsvType
        THEN extracted(process_csv_file(file_content))
        ELSE Raise(Note(got, "extract", FALSE), "Unsupported content type: " \o content_type)

(***************************************************************************)
(* validate_entity_data and create_normalized_entities lines 387-394.      *)
(***************************************************************************)
\* A faulty validation, which C18 must reject: the file name does not stand
\* in for a missing claim number.
validate_requires_claim_number(claim_info, parsed_data) ==
    LET errors ==
            (IF ~Truthy(Get(claim_info, "tenant_id", None))
             THEN <<"Missing tenant_id">> ELSE <<>>)
         \o (IF ~Truthy(Get(claim_info, "hospital_id", None))
             THEN <<"Missing hospital_id">> ELSE <<>>)
         \o (IF ~Truthy(Get(parsed_data, "claim_number", None))
             THEN <<"No claim identifier found">> ELSE <<>>)
    IN  [valid |-> Len(errors) = 0, errors |-> errors]

\* A faulty validation, which C19 must reject: it stops at the first
\* violated rule.
validate_short_circuit(claim_info, parsed_data) ==
    LET errors ==
            IF ~Truthy(Get(claim_info, "tenant_id", None))
            THEN <<"Missing tenant_id">>
            ELSE IF ~Truthy(Get(claim_info, "hospital_id", None))
            THEN <<"Missing hospital_id">>
            ELSE IF /\ ~Truthy(Get(parsed_data, "claim_number", None))
                    /\ ~Truthy(Get(claim_info, "original_filename", None))
            THEN <<"No claim identifier found">> ELSE <<>>
    IN  [valid |-> Len(errors) = 0, errors |-> errors]

validate_entity_data(claim_info, parsed_data) ==
    LET errors ==
            (IF ~Truthy(Get(claim_info, "tenant_id", None))
             THEN <<"Missing tenant_id">> ELSE <<>>)
         \o (IF ~Truthy(Get(claim_info, "hospital_id", None))
             THEN <<"Missing hospital_id">> ELSE <<>>)
         \o (IF /\ ~Truthy(Get(parsed_data, "claim_number", None))
                /\ ~Truthy(Get(claim_info, "original_filename", None))
             THEN <<"No claim identifier found">> ELSE <<>>)
    IN  [valid |-> Len(errors) = 0, errors |-> errors]

\* str(list of str)
RECURSIVE PyListItems(_)
PyListItems(xs) ==
    IF xs = <<>> THEN ""
    ELSE "'" \o Head(xs) \o "'" \o (IF Len(xs) > 1 THEN ", " ELSE "") \o PyListItems(Tail(xs))

\* A faulty validation step, which C30 must reject: a result flagged for
\* manual processing is not normalized.
ValidateHonoursManualFlag(loc) ==
    LET validation_result ==
            validate_entity_data(loc.claim_info, loc.processing_result.parsed_data)
    IN  IF Get(loc.processing_result, "requires_manual_processing", FALSE)
        THEN Raise(Note(loc, "validate", FALSE), "Manual processing required")
        ELSE IF validation_result.valid
        THEN Advance(Note(loc, "validate", TRUE))
        ELSE Raise(Note(loc, "validate", FALSE),
                   "Validation failed: [" \o PyListItems(validation_result.errors) \o "]")

Validate(loc) ==
    LET validation_result ==
            validate_entity_data(loc.claim_info, loc.processing_result.parsed_data)
    IN  IF validation_result.valid
        THEN Advance(Note(loc, "validate", TRUE))
        ELSE Raise(Note(loc, "validate", FALSE),
                   "Validation failed: [" \o PyListItems(validation_result.errors) \o "]")

\* lambda_handler lines 78-81 up to the first store call of
\* create_normalized_entities: extraction, then validation.
ProcessClaimFile(w) ==
    /\ At(w, "process_claim_file")
    /\ \E fault \in FileFaults(inv[w].claim_info) :
          LET loc == process_claim_file(inv[w], fault)
          IN  inv' = [inv EXCEPT ![w] =
                        IF loc.pc = "validate_entity_data" THEN Validate(loc) ELSE loc]
    /\ UNCHANGED <<claims, patients, payers, denials, agent_logs, runs, overlap>>

(***************************************************************************)
(* create_or_update_patient / create_or_update_payer: a SELECT by tenant   *)
(* and case-insensitive name, then an INSERT when nothing matched.  The    *)
(* two statements are separate store calls.                                *)
(***************************************************************************)
\* A faulty lookup, which C10 must reject: only the parameter is lowered.
ExistingOneSidedLower(table, tenant_id, name) ==
    {r \in table : r.tenant_id = tenant_id /\ r.name = Lower(name)}

\* Faulty lookups: C11 must reject the one that leaves out the tenant, C12
\* the one that compares the names as written.
ExistingAnyTenant(table, tenant_id, name) ==
    {r \in table : Lower(r.name) = Lower(name)}
ExistingExactCase(table, tenant_id, name) ==
    {r \in table : r.tenant_id = tenant_id /\ r.name = name}

\* WHERE tenant_id = :tenant_id AND LOWER(name) = LOWER(:name)
Existing(table, tenant_id, name) ==
    {r \in table : r.tenant_id = tenant_id /\ Lower(r.name) = Lower(name)}

\* A faulty default, which C25 must reject: a claim without a patient name
\* gets a patient of its own, named after the claim.
PatientNameOfClaim(parsed_data) ==
    Get(parsed_data, "patient_name",
        "Patient of " \o Get(parsed_data, "claim_number", Get(parsed_data, "file_type", "")))

PatientName(parsed_data) == Get(parsed_data, "patient_name", "Unknown Patient")
\* A faulty payer name, which C34 must reject: the patient's name.
PayerNameOfPatient(parsed_data) == Get(parsed_data, "patient_name", "Unknown Payer")

PayerName(parsed_data) == Get(parsed_data, "hospital_name", "Unknown Payer")

SelectPatient(w) ==
    /\ At(w, "create_or_update_patient")
    /\ LET loc == inv[w]
           found == Existing(patients, loc.claim_info.tenant_id,
                             PatientName(loc.processing_result.parsed_data))
       IN  \/ inv' = [inv EXCEPT ![w] = Raise(Note(loc, "select_patient", FALSE), DatabaseError)]
           \* LIMIT 1 without ORDER BY: any one matching row
           \/ \E r \in found :
                inv' = [inv EXCEPT ![w] =
                          [Advance(Note(loc, "select_patient", TRUE)) EXCEPT
                              !.patient_id = r.patient_id]]
           \/ /\ found = {}
              /\ inv' = [inv EXCEPT ![w] =
                          [Note(loc, "select_patient", TRUE) EXCEPT !.pc = "insert_patient"]]
    /\ overlap' = [overlap EXCEPT
                     !.patients = @ \/ \E j \in Workers \ {w} : inv[j].pc = "insert_patient"]
    /\ UNCHANGED <<claims, patients, payers, denials, agent_logs, runs>>

InsertPatient(w) ==
    /\ At(w, "insert_patient")
    /\ LET loc == inv[w]
           patient_id == Uuid4("patient-", patients)
       IN  \/ /\ inv' = [inv EXCEPT ![w] = Raise(Note(loc, "insert_patient", FALSE), DatabaseError)]
              /\ UNCHANGED patients
           \/ /\ patients' = patients \cup
                    {[patient_id |-> patient_id,
                      tenant_id |-> loc.claim_info.tenant_id,
                      hospital_id |-> loc.claim_info.hospital_id,
                      name |-> PatientName(loc.processing_result.parsed_data)]}
              /\ inv' = [inv EXCEPT ![w] =
                          [Advance(Note(loc, "insert_patient", TRUE)) EXCEPT
                              !.patient_id = patient_id]]
    /\ UNCHANGED <<claims, payers, denials, agent_logs, runs, overlap>>

SelectPayer(w) ==
    /\ At(w, "create_or_update_payer")
    /\ LET loc == inv[w]
           found == Existing(payers, loc.claim_info.tenant_id,
                             PayerName(loc.processing_result.parsed_data))
       IN  \/ inv' = [inv EXCEPT ![w] = Raise(Note(loc, "select_payer", FALSE), DatabaseError)]
           \/ \E r \in found :
                inv' = [inv EXCEPT ![w] =
                          [Advance(Note(loc, "select_payer", TRUE)) EXCEPT
                              !.payer_id = r.payer_id]]
           \/ /\ found = {}
              /\ inv' = [inv EXCEPT ![w] =
                          [Note(loc, "select_payer", TRUE) EXCEPT !.pc = "insert_payer"]]
    /\ overlap' = [overlap EXCEPT
                     !.payers = @ \/ \E j \in Workers \ {w} : inv[j].pc = "insert_payer"]
    /\ UNCHANGED <<claims, patients, payers, denials, agent_logs, runs>>

InsertPayer(w) ==
    /\ At(w, "insert_payer")
    /\ LET loc == inv[w]
           payer_id == Uuid4("payer-", payers)
       IN  \/ /\ inv' = [inv EXCEPT ![w] = Raise(Note(loc, "insert_payer", FALSE), DatabaseError)]
              /\ UNCHANGED payers
           \/ /\ payers' = payers \cup
                    {[payer_id |-> payer_id,
                      tenant_id |-> loc.claim_info.tenant_id,
                      name |-> PayerName(loc.processing_result.parsed_data),
                      payer_type |-> "TPA"]}
              /\ inv' = [inv EXCEPT ![w] =
                          [Advance(Note(loc, "insert_payer", TRUE)) EXCEPT
                              !.payer_id = payer_id]]
    /\ UNCHANGED <<claims, patients, denials, agent_logs, runs, overlap>>

(***************************************************************************)
(* create_denial_entity: always a new row.                                 *)
(***************************************************************************)
\* A faulty row, which C13 must reject: the tenant is not the claim's.
DenialRowOfNoTenant(denial_id, claim_info, parsed_data) ==
    [denial_id |-> denial_id,
     claim_id |-> claim_info.claim_id,
     tenant_id |-> "unknown",
     reason |-> Get(parsed_data, "denial_reason", "Reason not specified"),
     denied_amount |-> AmountNumeric(Get(parsed_data, "denied_amount", "0")),
     denial_text |-> Get(parsed_data, "denial_reason", "Reason not specified")]

DenialRow(denial_id, claim_info, parsed_data) ==
    [denial_id |-> denial_id,
     claim_id |-> claim_info.claim_id,
     tenant_id |-> claim_info.tenant_id,
     reason |-> Get(parsed_data, "denial_reason", "Reason not specified"),
     denied_amount |-> AmountNumeric(Get(parsed_data, "denied_amount", "0")),
     denial_text |-> Get(parsed_data, "denial_reason", "Reason not specified")]

\* A faulty denial creation, which C16 must reject: a claim that has a
\* denial keeps it.
CreateDenialEntityOnce(w) ==
    /\ At(w, "create_denial_entity")
    /\ LET loc == inv[w]
           denial_id == Uuid4("denial-", denials)
           had == {r \in denials : r.claim_id = loc.claim_info.claim_id}
       IN  \/ /\ inv' = [inv EXCEPT ![w] = Raise(Note(loc, "insert_denial", FALSE), DatabaseError)]
              /\ UNCHANGED denials
           \/ /\ denials' = IF had = {}
                            THEN denials \cup {DenialRow(denial_id, loc.claim_info,
                                                         loc.processing_result.parsed_data)}
                            ELSE denials
              /\ inv' = [inv EXCEPT ![w] =
                          [Advance(Note(loc, "insert_denial", TRUE)) EXCEPT
                              !.denial_id = IF had = {} THEN denial_id
                                            ELSE (CHOOSE r \in had : TRUE).denial_id]]
    /\ UNCHANGED <<claims, patients, payers, agent_logs, runs, overlap>>

CreateDenialEntity(w) ==
    /\ At(w, "create_denial_entity")
    /\ LET loc == inv[w]
           denial_id == Uuid4("denial-", denials)
       IN  \/ /\ inv' = [inv EXCEPT ![w] = Raise(Note(loc, "insert_denial", FALSE), DatabaseError)]
              /\ UNCHANGED denials
           \/ /\ denials' = denials \cup
                    {DenialRow(denial_id, loc.claim_info, loc.processing_result.parsed_data)}
              /\ inv' = [inv EXCEPT ![w] =
                          [Advance(Note(loc, "insert_denial", TRUE)) EXCEPT
                              !.denial_id = denial_id]]
    /\ UNCHANGED <<claims, patients, payers, agent_logs, runs, overlap>>

(***************************************************************************)
(* update_claim_entity: one UPDATE of the claim's extracted columns.       *)
(***************************************************************************)
\* A faulty update, which C29 must reject: the file name is replaced by the
\* claim number.
UpdatedClaimRenamesFile(row, claim_info, parsed_data, patient_id, payer_id, denial_id) ==
    [row EXCEPT
        !.claim_number = Get(parsed_data, "claim_number", claim_info.original_filename),
        !.original_filename = Get(parsed_data, "claim_number", claim_info.original_filename),
        !.patient_id = patient_id,
        !.payer_id = payer_id,
        !.denial_id = denial_id,
        !.claim_amount = AmountNumeric(Get(parsed_data, "claim_amount", "0"))]

\* A faulty update, which C17 must reject: a denial the claim already refers
\* to is kept.
UpdatedClaimKeepsDenial(row, claim_info, parsed_data, patient_id, payer_id, denial_id) ==
    [row EXCEPT
        !.claim_number = Get(parsed_data, "claim_number", claim_info.original_filename),
        !.patient_id = patient_id,
        !.payer_id = payer_id,
        !.denial_id = IF @ = None THEN denial_id ELSE @,
        !.claim_amount = AmountNumeric(Get(parsed_data, "claim_amount", "0"))]

\* A faulty update, which C7 must reject: the denial is not linked.
UpdatedClaimWithoutDenial(row, claim_info, parsed_data, patient_id, payer_id, denial_id) ==
    [row EXCEPT
        !.claim_number = Get(parsed_data, "claim_number", claim_info.original_filename),
        !.patient_id = patient_id,
        !.payer_id = payer_id,
        !.claim_amount = AmountNumeric(Get(parsed_data, "claim_amount", "0"))]

UpdatedClaim(row, claim_info, parsed_data, patient_id, payer_id, denial_id) ==
    [row EXCEPT
        !.claim_number = Get(parsed_data, "claim_number", claim_info.original_filename),
        !.patient_id = patient_id,
        !.payer_id = payer_id,
        !.denial_id = denial_id,
        !.claim_amount = AmountNumeric(Get(parsed_data, "claim_amount", "0"))]

UpdateClaimEntity(w) ==
    /\ At(w, "update_claim_entity")
    /\ LET loc == inv[w]
           claim_id == loc.claim_info.claim_id
       IN  \/ /\ inv' = [inv EXCEPT ![w] = Raise(Note(loc, "update_claim", FALSE), DatabaseError)]
              /\ UNCHANGED claims
           \/ /\ claims' = [claims EXCEPT ![claim_id] =
                              UpdatedClaim(@, loc.claim_info, loc.processing_result.parsed_data,
                                           loc.patient_id, loc.payer_id, loc.denial_id)]
              /\ inv' = [inv EXCEPT ![w] = Advance(Note(loc, "update_claim", TRUE))]
    /\ UNCHANGED <<patients, payers, denials, agent_logs, runs, overlap>>

(***************************************************************************)
(* update_claim_status(claim_id, 'DENIED'): the last pipeline step.        *)
(***************************************************************************)
\* A faulty status write, which C5 must reject: a status of a later stage.
WithStatusOfLaterStage(row, status) == [row EXCEPT !.status = "AI_ANALYZED"]

\* A faulty status write, which C31 must reject: a claim that has gone on
\* downstream keeps its status.
WithStatusUnlessDownstream(row, status) ==
    IF row.status \in {"AI_ANALYZED", "HUMAN_REVIEW", "SUBMITTED", "RECOVERED"}
    THEN row ELSE [row EXCEPT !.status = status]

WithStatus(row, status) == [row EXCEPT !.status = status]

UpdateClaimStatus(w) ==
    /\ At(w, "update_claim_status")
    /\ LET loc == inv[w]
           claim_id == loc.claim_info.claim_id
       IN  \/ /\ inv' = [inv EXCEPT ![w] =
                          Raise(NoteStatus(loc, "update_status", FALSE, StatusOnSuccess),
                                DatabaseError)]
              /\ UNCHANGED claims
           \/ /\ claims' = [claims EXCEPT ![claim_id] = WithStatus(@, StatusOnSuccess)]
              /\ inv' = [inv EXCEPT ![w] =
                          Advance(NoteStatus(loc, "update_status", TRUE, StatusOnSuccess))]
    /\ UNCHANGED <<patients, payers, denials, agent_logs, runs, overlap>>

(***************************************************************************)
(* log_normalization_event: one put_item; its own failure is swallowed.    *)
(***************************************************************************)
LogEntry(claim_id, tenant_id, status, processing_result) ==
    [claim_id |-> claim_id,
     agent_type |-> "NORMALIZATION",
     tenant_id |-> tenant_id,
     action |-> "DATA_NORMALIZATION",
     status |-> status,
     processing_type |-> Get(processing_result, "processing_type", "unknown"),
     summary |-> Get(processing_result, "summary", <<>>),
     error_message |-> Get(processing_result, "error", Absent)]

\* The audit table after a put_item that returned (logged) or raised.
Logged(logged, entry) == IF logged THEN agent_logs \cup {entry} ELSE agent_logs

(***************************************************************************)
(* lambda_handler lines 83-91: audit the success and return.               *)
(***************************************************************************)
SuccessResult(loc) ==
    [status |-> "success",
     claim_id |-> loc.claim_id,
     entities_created |-> [patient_id |-> loc.patient_id,
                           payer_id |-> loc.payer_id,
                           denial_id |-> loc.denial_id,
                           claim_updated |-> TRUE],
     processing_summary |-> Get(loc.processing_result, "summary", <<>>)]

LogSuccess(w) ==
    /\ At(w, "log_success")
    /\ \E logged \in BOOLEAN :
          /\ agent_logs' = Logged(logged, LogEntry(inv[w].claim_id, inv[w].claim_info.tenant_id,
                                                   "SUCCESS", inv[w].processing_result))
          /\ inv' = [inv EXCEPT ![w] =
                       [Resume(Note(inv[w], "audit", logged), logged) EXCEPT
                           !.result = SuccessResult(inv[w])]]
    /\ UNCHANGED <<claims, patients, payers, denials, runs, overlap>>

(***************************************************************************)
(* mark_for_manual_review: one UPDATE when the event carried a claim id;   *)
(* its own failure is logged and swallowed.                                *)
(***************************************************************************)
\* A faulty mark, which C3 must reject: the message is set, the status is not.
MarkedClaimKeepsStatus(row, error_message) == [row EXCEPT !.error_message = error_message]

MarkedClaim(row, error_message) ==
    [row EXCEPT !.status = StatusOnFailure, !.error_message = error_message]

\* A faulty manual-review write, which C6 must reject: it returns and has
\* changed nothing.
mark_nothing(claim_id, error_message, marked) == claims

\* A faulty manual-review write, which C27 must reject: the status is
\* written by a statement of its own, which stands when the second raises.
mark_in_two_statements(claim_id, error_message, marked) ==
    [c \in DOMAIN claims |->
        IF c # claim_id THEN claims[c]
        ELSE IF marked THEN MarkedClaim(claims[c], error_message)
        ELSE [claims[c] EXCEPT !.status = StatusOnFailure]]

\* UPDATE claims ... WHERE claim_id = :claim_id touches the row if there is
\* one; marked is whether the statement returned or raised.
mark_for_manual_review(claim_id, error_message, marked) ==
    [c \in DOMAIN claims |->
        IF marked /\ c = claim_id THEN MarkedClaim(claims[c], error_message) ELSE claims[c]]

\* A faulty except clause, which C9 must reject: no UPDATE is issued.
MarksNothing(claim_id) == FALSE

\* A faulty except clause, which C33 must reject: the UPDATE is issued
\* whatever the request carries.
MarksEveryRequest(claim_id) == TRUE

\* Whether mark_for_manual_review issues its UPDATE.
Marks(claim_id) == Truthy(claim_id)

ErrorResult(loc) ==
    [status |-> "error",
     claim_id |-> EventGet(loc.claim_id, None),
     error |-> loc.error,
     requires_manual_review |-> TRUE]

\* A faulty except clause, which C15 must reject: it deletes the rows the
\* invocation holds the ids of.
ExceptClauseRollsBack(w) ==
    /\ At(w, "except")
    /\ LET loc == inv[w]
           claim_id == EventGet(loc.claim_id, None)
       IN  \E marked \in (IF Marks(claim_id) THEN BOOLEAN ELSE {FALSE}), logged \in BOOLEAN :
              LET noted == IF Marks(claim_id)
                           THEN NoteStatus(loc, "mark_review", marked, StatusOnFailure)
                           ELSE loc
              IN  /\ claims' = mark_for_manual_review(claim_id, loc.error, marked)
                  /\ agent_logs' = Logged(logged, LogEntry(EventGet(loc.claim_id, "unknown"),
                                                           "unknown", "ERROR",
                                                           [error |-> loc.error]))
                  /\ inv' = [inv EXCEPT ![w] =
                               [Resume(Note(noted, "audit", logged),
                                       logged /\ (marked \/ ~Marks(claim_id))) EXCEPT
                                   !.result = ErrorResult(loc)]]
    /\ patients' = {r \in patients : r.patient_id # inv[w].patient_id}
    /\ payers' = {r \in payers : r.payer_id # inv[w].payer_id}
    /\ denials' = {r \in denials : r.denial_id # inv[w].denial_id}
    /\ UNCHANGED <<runs, overlap>>

(***************************************************************************)
(* lambda_handler lines 93-112, the except clause: mark the claim, audit   *)
(* the error, return the error result.                                     *)
(***************************************************************************)
ExceptClause(w) ==
    /\ At(w, "except")
    /\ LET loc == inv[w]
           claim_id == EventGet(loc.claim_id, None)
       IN  \E marked \in (IF Marks(claim_id) THEN BOOLEAN ELSE {FALSE}), logged \in BOOLEAN :
              LET noted == IF Marks(claim_id)
                           THEN NoteStatus(loc, "mark_review", marked, StatusOnFailure)
                           ELSE loc
              IN  /\ claims' = mark_for_manual_review(claim_id, loc.error, marked)
                  /\ agent_logs' = Logged(logged, LogEntry(EventGet(loc.claim_id, "unknown"),
                                                           "unknown", "ERROR",
                                                           [error |-> loc.error]))
                  /\ inv' = [inv EXCEPT ![w] =
                               [Resume(Note(noted, "audit", logged),
                                       logged /\ (marked \/ ~Marks(claim_id))) EXCEPT
                                   !.result = ErrorResult(loc)]]
    /\ UNCHANGED <<patients, payers, denials, runs, overlap>>

\* The caller has the result; the instance is free for the next event.
Reset(w) ==
    /\ inv[w].pc = "done"
    /\ inv' = [inv EXCEPT ![w] = Idle]
    /\ UNCHANGED <<claims, patients, payers, denials, agent_logs, runs, overlap>>

Step(w) ==
    \/ Start(w)
    \/ ProcessClaimFile(w)
    \/ SelectPatient(w)
    \/ InsertPatient(w)
    \/ SelectPayer(w)
    \/ InsertPayer(w)
    \/ CreateDenialEntity(w)
    \/ UpdateClaimEntity(w)
    \/ UpdateClaimStatus(w)
    \/ LogSuccess(w)
    \/ ExceptClause(w)
    \/ Reset(w)

Next == \E w \in Workers : Step(w)

Spec == Init /\ [][Next]_vars

NamelessSpec == NamelessInit /\ [][Next]_vars

StatusSpec == StatusInit /\ [][Next]_vars

HospitalSpec == HospitalInit /\ [][Next]_vars

(***************************************************************************)
(* validate_entity_data on its own: the two dictionaries are drawn with    *)
(* each key it reads absent, None, empty or set, and the one step applies  *)
(* the validation of create_normalized_entities to them.                   *)
(***************************************************************************)
\* A dictionary of the drawn values, a key drawn Absent left out.
Dict(f) == [k \in {key \in DOMAIN f : f[key] # Absent} |-> f[k]]

ValidatedClaimInfos ==
    {Dict([tenant_id |-> t, hospital_id |-> h, original_filename |-> n]) :
        t \in {Absent, None, "", "tA"},
        h \in {Absent, None, "", "h1"},
        n \in {Absent, None, "", "a.csv"}}

ValidatedParsedData ==
    {Dict([claim_number |-> c]) : c \in {Absent, None, "", "CLM-200"}}

ValidateInit ==
    /\ claims = UploadedClaims
    /\ patients = {}
    /\ payers = {}
    /\ denials = {}
    /\ agent_logs = {}
    /\ \E claim_info \in ValidatedClaimInfos, parsed_data \in ValidatedParsedData :
          inv = [w \in Workers |->
                    IF w = 1
                    THEN [Idle EXCEPT !.pc = "validate_entity_data",
                                      !.claim_id = "c1",
                                      !.claim_info = claim_info,
                                      !.processing_result = [parsed_data |-> parsed_data]]
                    ELSE Idle]
    /\ runs = MaxRuns
    /\ overlap = [patients |-> FALSE, payers |-> FALSE]

ValidateEntityData(w) ==
    /\ At(w, "validate_entity_data")
    /\ inv' = [inv EXCEPT ![w] = Validate(inv[w])]
    /\ UNCHANGED <<claims, patients, payers, denials, agent_logs, runs, overlap>>

ValidateNext == \E w \in Workers : ValidateEntityData(w)

ValidateSpec == ValidateInit /\ [][ValidateNext]_vars

(***************************************************************************)
(* process_csv_file on its own: the file is a header line followed by up   *)
(* to MaxCsvRows data lines, well-formed, short, long or blank.            *)
(***************************************************************************)
MaxCsvRows == 2

CsvHeaderLines ==
    {"claim_no,patient,amount",
     "Claim-No,Patient Name,Bill Amount",
     "claim_id,claim_no,reason",
     "patient,Patient,amount",
     "name,member_name,remarks",
     "x,y,z"}

CsvDataLines ==
    {"CLM-100,Jane Roe,15000.50",
     ",John Doe,-500",
     "CLM-7, ,",
     " X , Y , Z ",
     "A,B",
     "A,B,C,D",
     "  "}

RECURSIVE JoinData(_)
JoinData(lines) == IF lines = <<>> THEN "" ELSE "\n" \o Head(lines) \o JoinData(Tail(lines))

CsvFiles ==
    {header \o JoinData(lines) :
        header \in CsvHeaderLines,
        lines \in UNION {[1..n -> CsvDataLines] : n \in 0..MaxCsvRows}}

CsvInit ==
    /\ claims = UploadedClaims
    /\ patients = {}
    /\ payers = {}
    /\ denials = {}
    /\ agent_logs = {}
    /\ \E file_content \in CsvFiles :
          inv = [w \in Workers |->
                    IF w = 1
                    THEN [pc |-> "process_csv_file", file_content |-> file_content,
                          processing_result |-> <<>>]
                    ELSE Idle]
    /\ runs = MaxRuns
    /\ overlap = [patients |-> FALSE, payers |-> FALSE]

ProcessCsvFile(w) ==
    /\ At(w, "process_csv_file")
    /\ inv' = [inv EXCEPT ![w].processing_result = process_csv_file(inv[w].file_content),
                          ![w].pc = "validate_entity_data"]
    /\ UNCHANGED <<claims, patients, payers, denials, agent_logs, runs, overlap>>

CsvNext == \E w \in Workers : ProcessCsvFile(w)

CsvSpec == CsvInit /\ [][CsvNext]_vars

(***************************************************************************)
(* The amount conversion of create_denial_entity and update_claim_entity   *)
(* on its own: the amount string is a currency marker, a body and a tail.  *)
(***************************************************************************)
AmountMarkers == {"", " ", "₹", "₹ ", "Rs.", "Rs. "}

\* Bodies that are decimal numbers, with their values.
AmountDecimals ==
    {<<"12,345.00", Normalize(FALSE, 12345, 0)>>,
     <<"15000.50", Normalize(FALSE, 150005, -1)>>,
     <<"1,00,000.5", Normalize(FALSE, 1000005, -1)>>,
     <<"7", Normalize(FALSE, 7, 0)>>,
     <<"0", Zero>>,
     <<"-500", Normalize(TRUE, 500, 0)>>}

AmountBodies ==
    {d[1] : d \in AmountDecimals} \cup
    {"", "not-a-number", "1.2.3", "12 34", "500/-", "N/A", "1e3", "inf", "nan"}

AmountTails == {"", " ", "\n"}

AmountStrings ==
    {marker \o body \o tail :
        marker \in AmountMarkers, body \in AmountBodies, tail \in AmountTails}

AmountInit ==
    /\ claims = UploadedClaims
    /\ patients = {}
    /\ payers = {}
    /\ denials = {}
    /\ agent_logs = {}
    /\ \E amount \in AmountStrings :
          inv = [w \in Workers |->
                    IF w = 1
                    THEN [pc |-> "float", amount |-> amount, amount_numeric |-> None]
                    ELSE Idle]
    /\ runs = MaxRuns
    /\ overlap = [patients |-> FALSE, payers |-> FALSE]

ConvertAmount(w) ==
    /\ At(w, "float")
    /\ inv' = [inv EXCEPT ![w].amount_numeric = AmountNumeric(inv[w].amount),
                          ![w].pc = "execute"]
    /\ UNCHANGED <<claims, patients, payers, denials, agent_logs, runs, overlap>>

AmountNext == \E w \in Workers : ConvertAmount(w)

AmountSpec == AmountInit /\ [][AmountNext]_vars

(***************************************************************************)
(* The database-initialisation handler (db_init): one invocation over an   *)
(* event, a secrets vault, and a database whose statements take effect     *)
(* when their transaction commits.  Of each batch of SQL the model keeps   *)
(* its first MaxStatements statements; every call on the vault and on the  *)
(* database either returns or raises.                                      *)
(***************************************************************************)
MaxStatements == 2

\* The batches, in the order lambda_handler hands them to execute_schema_sql.
Batches == <<"schema_sql", "indexes_sql", "triggers_sql", "default_data_sql", "views_sql">>

\* statements = [stmt.strip() for stmt in schema_sql.split(';') if stmt.strip()]
Statements(batch) == {<<batch, n>> : n \in 1..MaxStatements}

SecretNames == {Absent, "", "dev/claimiq/database"}
ClusterEndpoints == {Absent, "", "dev-claimiq-cluster"}
DatabaseNames == {Absent, "claimiq", "analytics"}

\* The event dict: a key drawn as Absent is not in the dict.
InitEvent(secret_name, cluster_endpoint, database_name) ==
    LET all == [secret_name |-> secret_name, cluster_endpoint |-> cluster_endpoint,
                database_name |-> database_name]
    IN  [k \in {key \in DOMAIN all : all[key] # Absent} |-> all[k]]

InitEvents ==
    {InitEvent(s, c, d) : s \in SecretNames, c \in ClusterEndpoints, d \in DatabaseNames}

RequiredError == "secret_name and cluster_endpoint are required"
SecretsError == "An error occurred (ResourceNotFoundException) when calling the GetSecretValue operation"
ConnectError == "could not connect to server"
StatementError == "syntax error at or near"
CommitError == "server closed the connection unexpectedly"
CloseError == "connection already closed"

\* The database: the statements in effect, and those of the open transaction.
EmptyDatabase == [applied |-> {}, pending |-> {}]

\* A faulty cursor, which C35 must reject: each statement takes effect at once.
ExecuteAutocommit(database, statement) ==
    [database EXCEPT !.applied = @ \cup {statement}]

\* cursor.execute(statement)
Execute(database, statement) == [database EXCEPT !.pending = @ \cup {statement}]

\* connection.commit()
Commit(database) == [applied |-> database.applied \cup database.pending, pending |-> {}]

\* connection.rollback()
Rollback(database) == [database EXCEPT !.pending = {}]

DbInitInit ==
    /\ claims = UploadedClaims
    /\ patients = {}
    /\ payers = {}
    /\ denials = {}
    /\ agent_logs = {}
    /\ \E event \in InitEvents :
          inv = [w \in Workers |->
                    IF w = 1
                    THEN [pc |-> "event", event |-> event,
                          secret_name |-> None, cluster_endpoint |-> None,
                          database_name |-> None, credentials |-> None,
                          connection |-> "none", batch |-> 0, executed |-> 0,
                          database |-> EmptyDatabase, result |-> <<>>]
                    ELSE Idle]
    /\ runs = MaxRuns
    /\ overlap = [patients |-> FALSE, payers |-> FALSE]

\* except Exception as e: return {'statusCode': 500, ...}
InitFailed(loc, e) ==
    [loc EXCEPT !.pc = "returned",
                !.result = [statusCode |-> 500,
                            body |-> [error |-> "Database initialization failed",
                                      message |-> e]]]

\* return {'statusCode': 200, ...}
InitSucceeded(loc) ==
    [loc EXCEPT !.pc = "returned",
                !.result = [statusCode |-> 200,
                            body |-> [message |-> "Database schema initialized successfully",
                                      cluster_endpoint |-> loc.cluster_endpoint,
                                      database_name |-> loc.database_name]]]

DbFrame == UNCHANGED <<claims, patients, payers, denials, agent_logs, runs, overlap>>

\* Extract parameters from event, and require the two of them.
ExtractParameters(w) ==
    /\ At(w, "event")
    /\ LET loc == inv[w]
           secret_name == Get(loc.event, "secret_name", None)
           cluster_endpoint == Get(loc.event, "cluster_endpoint", None)
           database_name == Get(loc.event, "database_name", "claimiq")
           read == [loc EXCEPT !.secret_name = secret_name,
                               !.cluster_endpoint = cluster_endpoint,
                               !.database_name = database_name]
       IN  inv' = [inv EXCEPT ![w] =
                      IF ~Truthy(secret_name) \/ ~Truthy(cluster_endpoint)
                      THEN InitFailed(read, RequiredError)
                      ELSE [read EXCEPT !.pc = "get_database_credentials"]]
    /\ DbFrame

GetDatabaseCredentials(w) ==
    /\ At(w, "get_database_credentials")
    /\ \/ inv' = [inv EXCEPT ![w] = InitFailed(@, SecretsError)]
       \/ inv' = [inv EXCEPT ![w].credentials = "credentials",
                             ![w].pc = "get_database_connection"]
    /\ DbFrame

GetDatabaseConnection(w) ==
    /\ At(w, "get_database_connection")
    /\ \/ inv' = [inv EXCEPT ![w] = InitFailed(@, ConnectError)]
       \/ inv' = [inv EXCEPT ![w].connection = "open", ![w].batch = 1,
                             ![w].executed = 0, ![w].pc = "execute"]
    /\ DbFrame

\* execute_schema_sql, one statement of the batch: cursor.execute raises, and
\* the transaction is rolled back, or the statement joins the transaction.
ExecuteStatement(w) ==
    /\ At(w, "execute")
    /\ LET loc == inv[w]
           statement == <<Batches[loc.batch], loc.executed + 1>>
       IN  \/ inv' = [inv EXCEPT ![w] =
                         InitFailed([loc EXCEPT !.database = Rollback(@)], StatementError)]
           \/ inv' = [inv EXCEPT ![w] =
                         [loc EXCEPT !.database = Execute(@, statement),
                                     !.executed = @ + 1,
                                     !.pc = IF loc.executed + 1 = MaxStatements
                                            THEN "commit" ELSE "execute"]]
    /\ DbFrame

\* execute_schema_sql, after the last statement: connection.commit() raises
\* before or after the database committed, or returns and the handler goes on
\* to the next batch.
CommitBatch(w) ==
    /\ At(w, "commit")
    /\ LET loc == inv[w]
       IN  \/ inv' = [inv EXCEPT ![w] =
                         InitFailed([loc EXCEPT !.database = Rollback(@)], CommitError)]
           \/ inv' = [inv EXCEPT ![w] =
                         InitFailed([loc EXCEPT !.database = Rollback(Commit(@))], CommitError)]
           \/ inv' = [inv EXCEPT ![w] =
                         [loc EXCEPT !.database = Commit(@),
                                     !.executed = 0,
                                     !.batch = IF loc.batch = Len(Batches) THEN @ ELSE @ + 1,
                                     !.pc = IF loc.batch = Len(Batches)
                                            THEN "close" ELSE "execute"]]
    /\ DbFrame

\* connection.close(), then the success result.
CloseConnection(w) ==
    /\ At(w, "close")
    /\ \/ inv' = [inv EXCEPT ![w] = InitFailed(@, CloseError)]
       \/ inv' = [inv EXCEPT ![w] = InitSucceeded([@ EXCEPT !.connection = "closed"])]
    /\ DbFrame

DbInitNext ==
    \E w \in Workers :
        \/ ExtractParameters(w)
        \/ GetDatabaseCredentials(w)
        \/ GetDatabaseConnection(w)
        \/ ExecuteStatement(w)
        \/ CommitBatch(w)
        \/ CloseConnection(w)

DbInitSpec == DbInitInit /\ [][DbInitNext]_vars

(***************************************************************************)
(* process_claim_file on its own: one claim whose content type is a media  *)
(* type, written with or without parameters, over one of three objects.    *)
(***************************************************************************)
BareTypes ==
    {PdfType, CsvType, "application/zip", "text/plain", "TEXT/CSV", ""} \cup ExcelTypes

TypeParameters == {"", ";", "; charset=utf-8", " ;q=1;v=2"}

DispatchTypes ==
    {lead \o bare \o parameters :
        lead \in {"", " "}, bare \in BareTypes, parameters \in TypeParameters}

DispatchKeys == {"k1", "k2", "k6"}

DispatchInit ==
    /\ \E content_type \in DispatchTypes, s3_key \in DispatchKeys :
          claims = [c \in {"c1"} |->
                      ClaimRow("tA", "h1", "claim.bin", content_type, s3_key, "NEW")]
    /\ patients = {}
    /\ payers = {}
    /\ denials = {}
    /\ agent_logs = {}
    /\ inv = [w \in Workers |->
                IF w = 1
                THEN [Idle EXCEPT !.pc = "process_claim_file",
                                  !.claim_id = "c1",
                                  !.claim_info = ClaimInfo("c1"),
                                  !.before = Snapshot("c1")]
                ELSE Idle]
    /\ runs = MaxRuns
    /\ overlap = [patients |-> FALSE, payers |-> FALSE]

DispatchNext == \E w \in Workers : ProcessClaimFile(w)

DispatchSpec == DispatchInit /\ [][DispatchNext]_vars

\* The same handler over the second scenario.
TenantSpec == TenantInit /\ [][Next]_vars

(***************************************************************************)
(* Vocabulary of the properties below.                                     *)
(***************************************************************************)
StartsWith(str, prefix) ==
    Len(str) >= Len(prefix) /\ SubSeq(str, 1, Len(prefix)) = prefix

\* The invocation's record of store calls holds a call op that returned
\* (ok) or raised (~ok).
Called(loc, op, ok) ==
    \E i \in DOMAIN loc.trace : loc.trace[i].op = op /\ loc.trace[i].ok = ok

Issued(loc, op) == Called(loc, op, TRUE) \/ Called(loc, op, FALSE)

HasReturned(w) == inv[w].pc = "done"
OnExistingClaim(w) == inv[w].claim_id \in DOMAIN claims

\* Where the invocation failed, read off the message of the exception.
LookupFailed(loc) == StartsWith(loc.error, "Claim not found: ")
UnsupportedType(loc) == StartsWith(loc.error, "Unsupported content type: ")
ValidationFailed(loc) == StartsWith(loc.error, "Validation failed: ")
ReadFailed(loc) == loc.error = S3Error

EntityInserts == {"insert_patient", "insert_payer", "insert_denial"}
PipelineWrites == EntityInserts \cup {"update_claim", "update_status"}

\* The positions of an invocation under way: each is the guard of one step.
Positions ==
    {"process_claim_file", "create_or_update_patient", "insert_patient",
     "create_or_update_payer", "insert_payer", "create_denial_entity",
     "update_claim_entity", "update_claim_status", "log_success", "except"}

\* Steps left, at most, before the invocation returns.
Rank(pc) ==
    CASE pc = "done"                     -> 0
      [] pc = "except"                   -> 1
      [] pc = "log_success"              -> 1
      [] pc = "update_claim_status"      -> 2
      [] pc = "update_claim_entity"      -> 3
      [] pc = "create_denial_entity"     -> 4
      [] pc = "insert_payer"             -> 5
      [] pc = "create_or_update_payer"   -> 6
      [] pc = "insert_patient"           -> 7
      [] pc = "create_or_update_patient" -> 8
      [] pc = "process_claim_file"       -> 9
      [] OTHER                           -> 10

(***************************************************************************)
(* C1: every invocation runs to its return and returns a result of status  *)
(* "success" or "error"; no exception escapes lambda_handler, whichever    *)
(* call raises, the manual-review write and the audit write included.      *)
(* An invocation under way is always at a position of the handler that has *)
(* a next step, every step brings it nearer to its return, and what it     *)
(* returns has one of the two statuses.                                    *)
(***************************************************************************)
C1_AlwaysReturnsAResult ==
    /\ [](\A w \in Workers :
            /\ HasReturned(w) => inv[w].result.status \in {"success", "error"}
            /\ Active(w) => inv[w].pc \in Positions)
    /\ [][\A w \in Workers :
            Active(w) /\ inv'[w].pc # inv[w].pc => Rank(inv'[w].pc) < Rank(inv[w].pc)]_vars

\* An invocation returned although a pipeline call, the manual-review write
\* and the audit write all raised.
C1_Witness ==
    \E w \in Workers :
        /\ HasReturned(w)
        /\ inv[w].result.status = "error"
        /\ Called(inv[w], "insert_denial", FALSE)
        /\ Called(inv[w], "mark_review", FALSE)
        /\ Called(inv[w], "audit", FALSE)

(***************************************************************************)
(* C2: an invocation that has written DENIED had, before that write,       *)
(* obtained a patient, a payer and a denial row that exist in the store,   *)
(* and its claim update linking them had returned; no pipeline write       *)
(* follows the DENIED write.                                               *)
(***************************************************************************)
C2_DeniedOnlyAfterEntitiesLinked ==
    \A w \in Workers : \A i \in DOMAIN inv[w].trace :
        LET loc == inv[w]
            t == loc.trace
            before(k, ops) == \E j \in 1..(k - 1) : t[j].op \in ops /\ t[j].ok
        IN  t[i].status = "DENIED" /\ t[i].ok =>
              /\ \E r \in patients : r.patient_id = loc.patient_id
              /\ \E r \in payers : r.payer_id = loc.payer_id
              /\ \E r \in denials : r.denial_id = loc.denial_id /\ r.claim_id = loc.claim_id
              /\ \E u \in 1..(i - 1) :
                    /\ t[u].op = "update_claim" /\ t[u].ok
                    /\ before(u, {"select_patient", "insert_patient"})
                    /\ before(u, {"select_payer", "insert_payer"})
                    /\ before(u, {"insert_denial"})
              /\ \A k \in DOMAIN t : k > i => t[k].op \notin PipelineWrites
              /\ loc.solo =>
                    /\ claims[loc.claim_id].patient_id = loc.patient_id
                    /\ claims[loc.claim_id].payer_id = loc.payer_id
                    /\ claims[loc.claim_id].denial_id = loc.denial_id

\* An invocation has just written DENIED.
C2_Witness ==
    \E w \in Workers :
        /\ inv[w].pc = "log_success"
        /\ Called(inv[w], "update_status", TRUE)
        /\ claims[inv[w].claim_id].status = "DENIED"

(***************************************************************************)
(* C3 as stated: at the return of an invocation on an existing claim, the  *)
(* claim is MANUAL_REVIEW_REQUIRED if and only if the invocation failed.   *)
(***************************************************************************)
C3_ReviewIffFailed ==
    \A w \in Workers :
        HasReturned(w) /\ OnExistingClaim(w) =>
            (claims[inv[w].claim_id].status = "MANUAL_REVIEW_REQUIRED"
                <=> inv[w].result.status = "error")

(***************************************************************************)
(* C3 amended: at the return of an invocation that ran alone on an         *)
(* existing claim, the claim is DENIED if no stage failed; if a stage      *)
(* failed and the manual-review write returned, it is                      *)
(* MANUAL_REVIEW_REQUIRED with the failure's message; if a stage failed    *)
(* and the manual-review write raised, its status and error message are    *)
(* what they were before the invocation.                                   *)
(***************************************************************************)
C3_ReviewIffFailedAndMarked ==
    \A w \in Workers :
        LET loc == inv[w]
        IN  HasReturned(w) /\ OnExistingClaim(w) /\ loc.solo =>
              /\ loc.result.status = "success" => claims[loc.claim_id].status = "DENIED"
              /\ loc.result.status = "error" /\ Called(loc, "mark_review", TRUE) =>
                    Snapshot(loc.claim_id) = [status |-> "MANUAL_REVIEW_REQUIRED",
                                              error_message |-> loc.error]
              /\ loc.result.status = "error" /\ ~Called(loc, "mark_review", TRUE) =>
                    Snapshot(loc.claim_id) = loc.before

\* A failed invocation returned and its claim is not marked for review.
C3_Witness ==
    \E w \in Workers :
        /\ HasReturned(w) /\ OnExistingClaim(w) /\ inv[w].solo
        /\ inv[w].result.status = "error"
        /\ Called(inv[w], "mark_review", FALSE)
        /\ claims[inv[w].claim_id].status # "MANUAL_REVIEW_REQUIRED"

(***************************************************************************)
(* C4: the error message of a claim is populated exactly when its status   *)
(* is MANUAL_REVIEW_REQUIRED, and invocations keep it so: an invocation    *)
(* that ran alone on a claim for which this held when it started (a claim  *)
(* never processed, or one a failed invocation marked) returns with it     *)
(* still holding; a success after a failure leaves DENIED and no message.  *)
(***************************************************************************)
Populated(message) == message \notin {None, ""}

MessageIffReview(claim) ==
    Populated(claim.error_message) <=> claim.status = "MANUAL_REVIEW_REQUIRED"

C4_ErrorMessageIffReview ==
    \A w \in Workers :
        HasReturned(w) /\ OnExistingClaim(w) /\ inv[w].solo /\ MessageIffReview(inv[w].before)
            => MessageIffReview(Snapshot(inv[w].claim_id))

(***************************************************************************)
(* C5: the only status values written to a claim are DENIED, by the        *)
(* status step of an invocation that has not failed, and                   *)
(* MANUAL_REVIEW_REQUIRED, by the except clause of one that has.           *)
(***************************************************************************)
C5_OnlyDeniedOrReviewWritten ==
    /\ [](\A c \in DOMAIN claims :
            claims[c].status \in {UploadedClaims[c].status, "DENIED", "MANUAL_REVIEW_REQUIRED"})
    /\ [](\A w \in Workers : \A i \in DOMAIN inv[w].trace :
            LET call == inv[w].trace[i]
            IN  call.status # None =>
                  \/ call.op = "update_status" /\ call.status = "DENIED"
                  \/ call.op = "mark_review" /\ call.status = "MANUAL_REVIEW_REQUIRED")
    /\ [][\A c \in DOMAIN claims :
            claims'[c].status # claims[c].status =>
                \E w \in Workers :
                    /\ inv[w].claim_id = c
                    /\ \/ /\ claims'[c].status = "DENIED"
                          /\ inv[w].pc = "update_claim_status" /\ inv[w].error = None
                          /\ inv'[w].pc = "log_success"
                       \/ /\ claims'[c].status = "MANUAL_REVIEW_REQUIRED"
                          /\ inv[w].pc = "except" /\ inv[w].error # None
                          /\ inv'[w].pc = "done"]_vars

\* Both values have been written: one claim is DENIED, another marked.
C5_Witness ==
    \E c, d \in DOMAIN claims :
        /\ claims[c].status = "DENIED" /\ UploadedClaims[c].status # "DENIED"
        /\ claims[d].status = "MANUAL_REVIEW_REQUIRED"

(***************************************************************************)
(* C6 as stated: an invocation on an existing claim of unsupported content *)
(* type, or whose object-store read raised, returns status "error" with    *)
(* requires_manual_review, and the claim is then MANUAL_REVIEW_REQUIRED    *)
(* with a non-empty error message.                                         *)
(***************************************************************************)
ErrorResultReturned(loc) ==
    loc.result.status = "error" /\ loc.result.requires_manual_review = TRUE

C6_UnreadableFileMarksClaim ==
    \A w \in Workers :
        LET loc == inv[w]
        IN  HasReturned(w) /\ OnExistingClaim(w) /\ (UnsupportedType(loc) \/ ReadFailed(loc)) =>
              /\ ErrorResultReturned(loc)
              /\ claims[loc.claim_id].status = "MANUAL_REVIEW_REQUIRED"
              /\ Populated(claims[loc.claim_id].error_message)

(***************************************************************************)
(* C6 amended: such an invocation always returns status "error" with       *)
(* requires_manual_review; the claim is MANUAL_REVIEW_REQUIRED with the    *)
(* failure's message, which is not empty, when the manual-review write     *)
(* returned; when that write raised, the status and error message of a     *)
(* claim the invocation ran alone on are what they were before.            *)
(***************************************************************************)
C6_UnreadableFileMarksClaimIfWritten ==
    \A w \in Workers :
        LET loc == inv[w]
        IN  HasReturned(w) /\ OnExistingClaim(w) /\ (UnsupportedType(loc) \/ ReadFailed(loc)) =>
              /\ ErrorResultReturned(loc)
              /\ loc.result.error = loc.error /\ Populated(loc.error)
              /\ Called(loc, "mark_review", TRUE) =>
                    Snapshot(loc.claim_id) = [status |-> "MANUAL_REVIEW_REQUIRED",
                                              error_message |-> loc.error]
              /\ Called(loc, "mark_review", FALSE) /\ loc.solo =>
                    Snapshot(loc.claim_id) = loc.before

\* The zip claim's invocation returned an error and the claim is not marked.
C6_Witness ==
    \E w \in Workers :
        /\ HasReturned(w) /\ OnExistingClaim(w)
        /\ inv[w].error = "Unsupported content type: application/zip"
        /\ Called(inv[w], "mark_review", FALSE)
        /\ claims[inv[w].claim_id].status # "MANUAL_REVIEW_REQUIRED"

(***************************************************************************)
(* C7: when an invocation that ran alone on its claim returns status       *)
(* "success", the claim is DENIED, its patient_id, payer_id and denial_id  *)
(* are not null, are the ids of entities_created, and are ids of rows of   *)
(* patients, payers and denials.                                           *)
(***************************************************************************)
C7_SuccessLeavesClaimLinked ==
    \A w \in Workers :
        HasReturned(w) /\ inv[w].solo /\ inv[w].result.status = "success" =>
            LET row == claims[inv[w].claim_id]
                made == inv[w].result.entities_created
            IN  /\ row.status = "DENIED"
                /\ row.patient_id # None /\ row.payer_id # None /\ row.denial_id # None
                /\ row.patient_id = made.patient_id
                /\ row.payer_id = made.payer_id
                /\ row.denial_id = made.denial_id
                /\ \E r \in patients : r.patient_id = row.patient_id
                /\ \E r \in payers : r.payer_id = row.payer_id
                /\ \E r \in denials : r.denial_id = row.denial_id

\* The CSV claim's invocation, alone on the claim, returned success.
C7_Witness ==
    \E w \in Workers :
        /\ HasReturned(w) /\ inv[w].solo
        /\ inv[w].result.status = "success"
        /\ inv[w].claim_info.content_type = "text/csv"

(***************************************************************************)
(* C8: an invocation that fails at the claim lookup, at extraction for an  *)
(* unsupported content type, or at validation issues no insert into        *)
(* patients, payers or denials and holds no entity id; its steps leave the *)
(* three tables as they were.                                              *)
(***************************************************************************)
FailedEarly(loc) == LookupFailed(loc) \/ UnsupportedType(loc) \/ ValidationFailed(loc)

C8_EarlyFailureInsertsNothing ==
    /\ [](\A w \in Workers :
            FailedEarly(inv[w]) =>
                /\ \A op \in EntityInserts : ~Issued(inv[w], op)
                /\ inv[w].patient_id = None /\ inv[w].payer_id = None
                /\ inv[w].denial_id = None)
    /\ [][\A w \in Workers :
            /\ inv'[w].pc # inv[w].pc
            /\ inv[w].pc = "idle" \/ FailedEarly(inv'[w])
            => UNCHANGED <<patients, payers, denials>>]_vars

\* One invocation returned from a validation failure while another is
\* handling an unsupported content type.
C8_Witness ==
    \E w, j \in Workers :
        /\ HasReturned(w) /\ ValidationFailed(inv[w])
        /\ inv[j].pc = "except" /\ UnsupportedType(inv[j])

(***************************************************************************)
(* C9 as stated: when the claim lookup fails, no write to the claims table *)
(* is issued, so that a claim that exists but could not be read keeps its  *)
(* status and error message.                                               *)
(***************************************************************************)
C9_LookupFailureWritesNoClaim ==
    \A w \in Workers :
        HasReturned(w) /\ LookupFailed(inv[w]) =>
            /\ ~Issued(inv[w], "mark_review")
            /\ OnExistingClaim(w) /\ inv[w].solo => Snapshot(inv[w].claim_id) = inv[w].before

(***************************************************************************)
(* C9 amended: when the claim lookup fails, no insert and no pipeline      *)
(* update is issued; the one write issued is the manual-review UPDATE of   *)
(* the except clause.  It matches no row when the claim is absent.  A      *)
(* claim that exists but could not be read, with no other invocation on    *)
(* it, becomes MANUAL_REVIEW_REQUIRED with the message "Claim not found:   *)
(* <id>" when that UPDATE returned, and keeps its status and error message *)
(* when it raised.                                                         *)
(***************************************************************************)
C9_LookupFailureOnlyMarksClaim ==
    \A w \in Workers :
        LET loc == inv[w]
        IN  HasReturned(w) /\ LookupFailed(loc) =>
              /\ \A op \in PipelineWrites : ~Issued(loc, op)
              /\ Issued(loc, "mark_review")
              /\ loc.error = "Claim not found: " \o loc.claim_id
              /\ OnExistingClaim(w) => Called(loc, "select_claim", FALSE)
              /\ OnExistingClaim(w) /\ loc.solo =>
                    Snapshot(loc.claim_id) =
                        IF Called(loc, "mark_review", TRUE)
                        THEN [status |-> "MANUAL_REVIEW_REQUIRED", error_message |-> loc.error]
                        ELSE loc.before

\* A claim that exists could not be read and is now marked "Claim not found".
C9_Witness ==
    \E w \in Workers :
        /\ HasReturned(w) /\ LookupFailed(inv[w]) /\ OnExistingClaim(w) /\ inv[w].solo
        /\ inv[w].before.status # "MANUAL_REVIEW_REQUIRED"
        /\ claims[inv[w].claim_id].status = "MANUAL_REVIEW_REQUIRED"
        /\ claims[inv[w].claim_id].error_message = "Claim not found: " \o inv[w].claim_id

(***************************************************************************)
(* C10: while no two calls of a resolver have overlapped, its table holds  *)
(* at most one row per tenant and case-insensitive name, and every call    *)
(* that returned an id returned the id of that row: two calls for the same *)
(* pair return the same id and the second inserts nothing.  This holds of  *)
(* the patient resolver and of the payer resolver.                         *)
(***************************************************************************)
SameEntity(r, tenant_id, name) == r.tenant_id = tenant_id /\ Lower(r.name) = Lower(name)

OneRowEach(table) ==
    \A r1, r2 \in table : SameEntity(r1, r2.tenant_id, r2.name) => r1 = r2

C10_ResolversIdempotent ==
    /\ ~overlap.patients =>
          /\ OneRowEach(patients)
          /\ \A w \in Workers :
                inv[w].patient_id # None =>
                    \E r \in patients :
                        /\ r.patient_id = inv[w].patient_id
                        /\ SameEntity(r, inv[w].claim_info.tenant_id,
                                      PatientName(inv[w].processing_result.parsed_data))
    /\ ~overlap.payers =>
          /\ OneRowEach(payers)
          /\ \A w \in Workers :
                inv[w].payer_id # None =>
                    \E r \in payers :
                        /\ r.payer_id = inv[w].payer_id
                        /\ SameEntity(r, inv[w].claim_info.tenant_id,
                                      PayerName(inv[w].processing_result.parsed_data))

\* A second call of each resolver found the row the first call inserted.
C10_Witness ==
    \E w \in Workers :
        /\ ~overlap.patients /\ ~overlap.payers
        /\ Called(inv[w], "select_patient", TRUE) /\ ~Issued(inv[w], "insert_patient")
        /\ Called(inv[w], "select_payer", TRUE) /\ ~Issued(inv[w], "insert_payer")
        /\ inv[w].patient_id # None /\ inv[w].payer_id # None
        /\ Cardinality(patients) = 1 /\ Cardinality(payers) = 1

(***************************************************************************)
(* C11: a resolution for a claim of one tenant never returns the id of a   *)
(* row of another tenant, whatever rows the other tenant holds: the row    *)
(* whose id an invocation holds carries the tenant_id of its claim, so the *)
(* same name resolved under two tenants gives two ids and two rows, one    *)
(* per tenant.  This holds of patients and of payers.                      *)
(***************************************************************************)
RowOf(table, id) == {r \in table : id \in {Get(r, "patient_id", None), Get(r, "payer_id", None)}}

C11_TenantIsolation ==
    \A w \in Workers :
        /\ inv[w].patient_id # None =>
              /\ RowOf(patients, inv[w].patient_id) # {}
              /\ \A r \in RowOf(patients, inv[w].patient_id) :
                    r.tenant_id = inv[w].claim_info.tenant_id
        /\ inv[w].payer_id # None =>
              /\ RowOf(payers, inv[w].payer_id) # {}
              /\ \A r \in RowOf(payers, inv[w].payer_id) :
                    r.tenant_id = inv[w].claim_info.tenant_id

\* "Jane Roe" and "City Care" are on file under both tenants, with distinct
\* ids, and an invocation of tenant B holds tenant B's.
C11_Witness ==
    \E w \in Workers : \E a, b \in patients : \E p, q \in payers :
        /\ a.tenant_id = "tA" /\ b.tenant_id = "tB"
        /\ a.name = b.name /\ a.patient_id # b.patient_id
        /\ p.tenant_id = "tA" /\ q.tenant_id = "tB"
        /\ p.name = q.name /\ p.payer_id # q.payer_id
        /\ inv[w].claim_info # <<>> /\ inv[w].claim_info.tenant_id = "tB"
        /\ inv[w].patient_id = b.patient_id /\ inv[w].payer_id = q.payer_id

(***************************************************************************)
(* C12: a resolver call whose name matches, letter case aside, a row the   *)
(* tenant already has returns the id of such a row and inserts nothing;    *)
(* no step changes or removes a stored row, so the display name stays as   *)
(* first written.  Stated of each resolver step.                           *)
(***************************************************************************)
Matching(table, tenant_id, name) == {r \in table : SameEntity(r, tenant_id, name)}

C12_CaseInsensitiveResolution ==
    [][/\ patients \subseteq patients'
       /\ payers \subseteq payers'
       /\ \A w \in Workers :
            LET loc == inv[w]
                tenant_id == loc.claim_info.tenant_id
                parsed_data == loc.processing_result.parsed_data
            IN  /\ loc.pc = "create_or_update_patient"
                   /\ inv'[w].pc \notin {loc.pc, "except"}
                   /\ Matching(patients, tenant_id, PatientName(parsed_data)) # {}
                   => /\ inv'[w].pc = "create_or_update_payer"
                      /\ \E r \in Matching(patients, tenant_id, PatientName(parsed_data)) :
                            inv'[w].patient_id = r.patient_id
                      /\ patients' = patients
                /\ loc.pc = "create_or_update_payer"
                   /\ inv'[w].pc \notin {loc.pc, "except"}
                   /\ Matching(payers, tenant_id, PayerName(parsed_data)) # {}
                   => /\ inv'[w].pc = "create_denial_entity"
                      /\ \E r \in Matching(payers, tenant_id, PayerName(parsed_data)) :
                            inv'[w].payer_id = r.payer_id
                      /\ payers' = payers]_vars

\* "jane roe" resolved to the one row, stored as "Jane Roe"; the payer too.
C12_Witness ==
    \E w \in Workers : \E r \in patients : \E q \in payers :
        /\ inv[w].patient_id = r.patient_id /\ inv[w].payer_id = q.payer_id
        /\ r.name = "Jane Roe"
        /\ PatientName(inv[w].processing_result.parsed_data) = "jane roe"
        /\ q.name # PayerName(inv[w].processing_result.parsed_data)
        /\ Cardinality(patients) = 1 /\ Cardinality(payers) = 1

(***************************************************************************)
(* C13: every patient, payer and denial row an invocation inserted carries *)
(* the tenant_id of the claim the invocation is processing, and the        *)
(* patient_id and payer_id on a claim are ids of rows of the claim's       *)
(* tenant.                                                                 *)
(***************************************************************************)
C13_RowsCarryClaimTenant ==
    /\ \A w \in Workers :
          LET loc == inv[w]
              mine(table, id) == \E r \in RowOf(table, id) :
                                    r.tenant_id = claims[loc.claim_id].tenant_id
          IN  /\ Called(loc, "insert_patient", TRUE) => mine(patients, loc.patient_id)
              /\ Called(loc, "insert_payer", TRUE) => mine(payers, loc.payer_id)
              /\ Called(loc, "insert_denial", TRUE) =>
                    \E d \in denials : /\ d.denial_id = loc.denial_id
                                       /\ d.claim_id = loc.claim_id
                                       /\ d.tenant_id = claims[loc.claim_id].tenant_id
    /\ \A d \in denials : d.tenant_id = claims[d.claim_id].tenant_id
    /\ \A c \in DOMAIN claims :
          /\ claims[c].patient_id # None =>
                /\ RowOf(patients, claims[c].patient_id) # {}
                /\ \A r \in RowOf(patients, claims[c].patient_id) :
                      r.tenant_id = claims[c].tenant_id
          /\ claims[c].payer_id # None =>
                /\ RowOf(payers, claims[c].payer_id) # {}
                /\ \A r \in RowOf(payers, claims[c].payer_id) :
                      r.tenant_id = claims[c].tenant_id

\* Claims of both tenants are linked to rows, and both tenants have denials.
C13_Witness ==
    /\ claims["c1"].patient_id # None /\ claims["c1"].payer_id # None
    /\ claims["c2"].patient_id # None /\ claims["c2"].payer_id # None
    /\ \E d, e \in denials : d.tenant_id = "tA" /\ e.tenant_id = "tB"

(***************************************************************************)
(* C14: two concurrent invocations can both look up the same unseen name   *)
(* of one tenant, both find nothing and both insert.  Whenever two         *)
(* invocations have each inserted a row for the same tenant and name, the  *)
(* table holds two rows of that tenant and name and the invocations hold   *)
(* different ids; the witness shows the state is reached, for patients and *)
(* for payers.                                                             *)
(***************************************************************************)
SameRequest(w, j, name(_)) ==
    /\ inv[w].claim_info.tenant_id = inv[j].claim_info.tenant_id
    /\ Lower(name(inv[w].processing_result.parsed_data))
          = Lower(name(inv[j].processing_result.parsed_data))

C14_RaceInsertsDuplicates ==
    \A w, j \in Workers :
        /\ w # j /\ Called(inv[w], "insert_patient", TRUE)
                 /\ Called(inv[j], "insert_patient", TRUE)
                 /\ SameRequest(w, j, PatientName)
           => /\ inv[w].patient_id # inv[j].patient_id
              /\ \E r1, r2 \in patients :
                    /\ r1 # r2
                    /\ r1.patient_id = inv[w].patient_id /\ r2.patient_id = inv[j].patient_id
                    /\ SameEntity(r1, r2.tenant_id, r2.name)
        /\ w # j /\ Called(inv[w], "insert_payer", TRUE)
                 /\ Called(inv[j], "insert_payer", TRUE)
                 /\ SameRequest(w, j, PayerName)
           => /\ inv[w].payer_id # inv[j].payer_id
              /\ \E r1, r2 \in payers :
                    /\ r1 # r2
                    /\ r1.payer_id = inv[w].payer_id /\ r2.payer_id = inv[j].payer_id
                    /\ SameEntity(r1, r2.tenant_id, r2.name)

\* Both invocations found no patient and no payer, and both inserted each.
C14_Witness ==
    \E w, j \in Workers :
        /\ w # j
        /\ Called(inv[w], "insert_patient", TRUE) /\ Called(inv[j], "insert_patient", TRUE)
        /\ Called(inv[w], "insert_payer", TRUE) /\ Called(inv[j], "insert_payer", TRUE)
        /\ SameRequest(w, j, PatientName) /\ SameRequest(w, j, PayerName)
        /\ inv[w].patient_id # inv[j].patient_id /\ inv[w].payer_id # inv[j].payer_id
        /\ Cardinality(patients) = 2 /\ Cardinality(payers) = 2

(***************************************************************************)
(* C15 as stated: when an invocation has failed at the denial insert, the  *)
(* claim update or the status write, every patient, payer and denial row   *)
(* it inserted is still in the store at its return, and the claim is       *)
(* MANUAL_REVIEW_REQUIRED.                                                 *)
(***************************************************************************)
FailedLate(loc) ==
    \/ Called(loc, "insert_denial", FALSE)
    \/ Called(loc, "update_claim", FALSE)
    \/ Called(loc, "update_status", FALSE)

\* The rows the invocation inserted are in the store.
InsertedRowsKept(loc) ==
    /\ Called(loc, "insert_patient", TRUE) =>
          \E r \in patients :
              /\ r.patient_id = loc.patient_id
              /\ SameEntity(r, loc.claim_info.tenant_id,
                            PatientName(loc.processing_result.parsed_data))
    /\ Called(loc, "insert_payer", TRUE) =>
          \E r \in payers :
              /\ r.payer_id = loc.payer_id
              /\ SameEntity(r, loc.claim_info.tenant_id,
                            PayerName(loc.processing_result.parsed_data))
    /\ Called(loc, "insert_denial", TRUE) =>
          \E r \in denials : r.denial_id = loc.denial_id /\ r.claim_id = loc.claim_id

C15_LateFailureKeepsRowsAndMarks ==
    \A w \in Workers :
        HasReturned(w) /\ FailedLate(inv[w]) =>
            /\ InsertedRowsKept(inv[w])
            /\ claims[inv[w].claim_id].status = "MANUAL_REVIEW_REQUIRED"

(***************************************************************************)
(* C15 amended: when an invocation has failed at the denial insert, the    *)
(* claim update or the status write, every patient, payer and denial row   *)
(* it inserted is still in the store at its return and it returns an       *)
(* error; the claim is MANUAL_REVIEW_REQUIRED with the failure's message   *)
(* when the manual-review write returned; when that write raised, the      *)
(* status and error message of a claim the invocation ran alone on are     *)
(* what they were before.                                                  *)
(***************************************************************************)
C15_LateFailureKeepsRowsMarksIfWritten ==
    \A w \in Workers :
        LET loc == inv[w]
        IN  HasReturned(w) /\ FailedLate(loc) =>
              /\ InsertedRowsKept(loc)
              /\ loc.result.status = "error"
              /\ Called(loc, "mark_review", TRUE) =>
                    Snapshot(loc.claim_id) = [status |-> "MANUAL_REVIEW_REQUIRED",
                                              error_message |-> loc.error]
              /\ Called(loc, "mark_review", FALSE) /\ loc.solo =>
                    Snapshot(loc.claim_id) = loc.before

\* The status write failed after three inserts, and so did the manual-review
\* write: the rows are there, the claim is not marked.
C15_Witness ==
    \E w \in Workers :
        /\ HasReturned(w) /\ Called(inv[w], "update_status", FALSE)
        /\ Called(inv[w], "insert_patient", TRUE)
        /\ Called(inv[w], "insert_payer", TRUE)
        /\ Called(inv[w], "insert_denial", TRUE)
        /\ InsertedRowsKept(inv[w])
        /\ Called(inv[w], "mark_review", FALSE)
        /\ claims[inv[w].claim_id].status # "MANUAL_REVIEW_REQUIRED"

(***************************************************************************)
(* C16: every attempt whose denial creation returns has added exactly one  *)
(* row to denials, for its claim and under an id no row carried; no other  *)
(* step changes the table and no attempt takes up an existing denial.  So  *)
(* k such attempts on a claim leave k rows for it; the claim's denial_id   *)
(* is the id of at most one of them.                                       *)
(***************************************************************************)
DenialIds(rows) == {r.denial_id : r \in rows}

C16_OneNewDenialPerAttempt ==
    /\ [](/\ \A r1, r2 \in denials : r1.denial_id = r2.denial_id => r1 = r2
          /\ \A c \in DOMAIN claims :
                claims[c].denial_id # None =>
                    \E r \in denials : r.denial_id = claims[c].denial_id /\ r.claim_id = c)
    /\ [][/\ denials' # denials =>
                \E w \in Workers : \E r \in denials' \ denials :
                    /\ inv[w].pc = "create_denial_entity"
                    /\ inv'[w].pc = "update_claim_entity"
                    /\ denials' = denials \cup {r}
                    /\ r.denial_id \notin DenialIds(denials)
                    /\ r.claim_id = inv[w].claim_id
                    /\ inv'[w].denial_id = r.denial_id
          /\ \A w \in Workers :
                inv[w].pc = "create_denial_entity" /\ inv'[w].pc = "update_claim_entity"
                    => Cardinality(denials') = Cardinality(denials) + 1]_vars

\* Two attempts on one claim: two denial rows, the claim refers to one.
C16_Witness ==
    \E c \in DOMAIN claims : \E r1, r2 \in denials :
        /\ r1 # r2 /\ r1.claim_id = c /\ r2.claim_id = c
        /\ Cardinality({r \in denials : r.claim_id = c}) = 2
        /\ claims[c].denial_id = r2.denial_id
        /\ \A w \in Workers : ~Active(w)

(***************************************************************************)
(* C17 as stated: a claim update applied to a claim that an earlier        *)
(* attempt already updated (one that stopped before the status write, or a *)
(* complete one) leaves claim_number, patient_id, payer_id, denial_id and  *)
(* claim_amount with the values they had, and the status write that        *)
(* follows leaves DENIED.                                                  *)
(***************************************************************************)
\* The step is w's claim update, returning, on a claim updated before.
Reupdates(w) ==
    /\ inv[w].pc = "update_claim_entity" /\ inv'[w].pc = "update_claim_status"
    /\ claims[inv[w].claim_id].denial_id # None

WritesDenied(w) ==
    inv[w].pc = "update_claim_status" /\ inv'[w].pc = "log_success"
        => claims'[inv[w].claim_id].status = "DENIED"

C17_RerunKeepsEveryColumn ==
    [][\A w \in Workers :
        /\ WritesDenied(w)
        /\ Reupdates(w) /\ ~overlap.patients /\ ~overlap.payers =>
              LET old == claims[inv[w].claim_id]
                  new == claims'[inv[w].claim_id]
              IN  /\ new.claim_number = old.claim_number
                  /\ new.claim_amount = old.claim_amount
                  /\ new.patient_id = old.patient_id
                  /\ new.payer_id = old.payer_id
                  /\ new.denial_id = old.denial_id]_vars

(***************************************************************************)
(* C17 amended: such a re-applied claim update leaves claim_number and     *)
(* claim_amount with the values they had, and patient_id and payer_id too  *)
(* when no two calls of the resolver have overlapped; denial_id changes to *)
(* the id of the denial row the new attempt inserted; the status write     *)
(* that follows leaves DENIED.                                             *)
(***************************************************************************)
C17_RerunKeepsAllButDenial ==
    [][\A w \in Workers :
        /\ WritesDenied(w)
        /\ Reupdates(w) =>
              LET old == claims[inv[w].claim_id]
                  new == claims'[inv[w].claim_id]
              IN  /\ new.claim_number = old.claim_number
                  /\ new.claim_amount = old.claim_amount
                  /\ ~overlap.patients => new.patient_id = old.patient_id
                  /\ ~overlap.payers => new.payer_id = old.payer_id
                  /\ new.denial_id # old.denial_id
                  /\ new.denial_id = inv[w].denial_id
                  /\ \E r \in denials : r.denial_id = new.denial_id
                                        /\ r.claim_id = inv[w].claim_id]_vars

\* A complete run, alone on a claim whose earlier attempt stopped after the
\* claim update: the claim is DENIED and refers to the second denial.
C17_Witness ==
    \E w \in Workers : \E r1, r2 \in denials :
        /\ HasReturned(w) /\ inv[w].solo /\ inv[w].result.status = "success"
        /\ inv[w].before.status # "DENIED"
        /\ r1 # r2 /\ r1.claim_id = inv[w].claim_id /\ r2.claim_id = inv[w].claim_id
        /\ claims[inv[w].claim_id].denial_id = r2.denial_id
        /\ inv[w].denial_id = r2.denial_id
        /\ claims[inv[w].claim_id].status = "DENIED"
        /\ Cardinality(patients) = 1 /\ Cardinality(payers) = 1

(***************************************************************************)
(* C18: validate_entity_data reports valid exactly when the tenant id and  *)
(* the hospital id are present and a claim number or a file name is; it    *)
(* returns a result on every input, and the validation step touches no     *)
(* table.                                                                  *)
(***************************************************************************)
Present(d, k) == k \in DOMAIN d /\ d[k] # None /\ d[k] # ""

RequiredFieldsPresent(claim_info, parsed_data) ==
    /\ Present(claim_info, "tenant_id")
    /\ Present(claim_info, "hospital_id")
    /\ Present(parsed_data, "claim_number") \/ Present(claim_info, "original_filename")

StoresUntouched ==
    /\ claims = UploadedClaims
    /\ patients = {} /\ payers = {} /\ denials = {} /\ agent_logs = {}

C18_ValidIffRequiredFields ==
    \A w \in Workers : inv[w].pc # "idle" =>
        LET loc == inv[w]
            claim_info == loc.claim_info
            parsed_data == loc.processing_result.parsed_data
            validation_result == validate_entity_data(claim_info, parsed_data)
        IN  /\ DOMAIN validation_result = {"valid", "errors"}
            /\ validation_result.valid \in BOOLEAN
            /\ validation_result.valid <=> RequiredFieldsPresent(claim_info, parsed_data)
            /\ Issued(loc, "validate") =>
                  /\ Called(loc, "validate", TRUE)
                        <=> RequiredFieldsPresent(claim_info, parsed_data)
                  /\ loc.pc = "create_or_update_patient"
                        <=> RequiredFieldsPresent(claim_info, parsed_data)
                  /\ Len(loc.trace) = 1
            /\ StoresUntouched

\* Validation has accepted a claim with no claim number on its file name.
C18_Witness ==
    \E w \in Workers :
        /\ Called(inv[w], "validate", TRUE)
        /\ ~Present(inv[w].processing_result.parsed_data, "claim_number")
        /\ Present(inv[w].claim_info, "original_filename")
        /\ inv[w].pc = "create_or_update_patient"

(***************************************************************************)
(* C19: the errors of validate_entity_data are one message for each        *)
(* violated rule, in the order tenant, hospital, identifier, whatever the  *)
(* other rules found; the failure raised from them carries them all.       *)
(***************************************************************************)
RuleMessages == <<"Missing tenant_id", "Missing hospital_id", "No claim identifier found">>

RuleViolated(i, claim_info, parsed_data) ==
    CASE i = 1 -> ~Present(claim_info, "tenant_id")
      [] i = 2 -> ~Present(claim_info, "hospital_id")
      [] i = 3 -> /\ ~Present(parsed_data, "claim_number")
                  /\ ~Present(claim_info, "original_filename")

C19_OneMessagePerViolatedRule ==
    \A w \in Workers : inv[w].pc # "idle" =>
        LET loc == inv[w]
            claim_info == loc.claim_info
            parsed_data == loc.processing_result.parsed_data
            errors == validate_entity_data(claim_info, parsed_data).errors
            violated == {i \in 1..3 : RuleViolated(i, claim_info, parsed_data)}
        IN  /\ Len(errors) = Cardinality(violated)
            /\ \A i \in 1..3 : RuleMessages[i] \in Range(errors) <=> i \in violated
            /\ \A m, n \in DOMAIN errors : m < n =>
                  \E i, j \in 1..3 : /\ i < j
                                     /\ errors[m] = RuleMessages[i]
                                     /\ errors[n] = RuleMessages[j]
            /\ Called(loc, "validate", FALSE) =>
                  /\ loc.pc = "except"
                  /\ loc.error = "Validation failed: [" \o PyListItems(errors) \o "]"

\* Validation has rejected a claim that violates all three rules.
C19_Witness ==
    \E w \in Workers :
        /\ Called(inv[w], "validate", FALSE)
        /\ \A i \in 1..3 :
              RuleViolated(i, inv[w].claim_info, inv[w].processing_result.parsed_data)
        /\ inv[w].error = "Validation failed: ['Missing tenant_id', "
                          \o "'Missing hospital_id', 'No claim identifier found']"

(***************************************************************************)
(* C20: a step whose audit append fails ends the invocation with the       *)
(* outcome it had: after a pipeline that succeeded, the success result,    *)
(* with no table changed, so that the claim stays DENIED; in the except    *)
(* clause, the structured error result carrying the failure's message.     *)
(***************************************************************************)
AuditFails(w) ==
    /\ inv[w].pc \in {"log_success", "except"}
    /\ ~Issued(inv[w], "audit")
    /\ Called(inv'[w], "audit", FALSE)

C20_AuditFailureKeepsOutcome ==
    [][\A w \in Workers : AuditFails(w) =>
        /\ inv'[w].pc = "done"
        /\ agent_logs' = agent_logs
        /\ inv[w].pc = "log_success" =>
              /\ inv'[w].result.status = "success"
              /\ inv'[w].result = SuccessResult(inv[w])
              /\ inv'[w].error = None
              /\ UNCHANGED <<claims, patients, payers, denials>>
              /\ inv[w].solo => claims'[inv[w].claim_id].status = "DENIED"
        /\ inv[w].pc = "except" =>
              /\ inv'[w].result = [status |-> "error",
                                   claim_id |-> EventGet(inv[w].claim_id, None),
                                   error |-> inv[w].error,
                                   requires_manual_review |-> TRUE]
              /\ inv[w].error # None
              /\ UNCHANGED <<patients, payers, denials>>]_vars

\* An invocation returned the error result though its audit append failed,
\* after an earlier one left a claim DENIED though its own append failed.
C20_Witness ==
    \E w \in Workers :
        /\ HasReturned(w) /\ Called(inv[w], "audit", FALSE)
        /\ ErrorResultReturned(inv[w])
        /\ agent_logs = {}
        /\ \E c \in DOMAIN claims : c # inv[w].claim_id /\ claims[c].status = "DENIED"

(***************************************************************************)
(* C21: for each target field, CSV extraction returns the cell of the      *)
(* first retained data line under the first synonym column, in the lookup  *)
(* table's order, whose cell is not empty, and leaves the field out when   *)
(* there is none; later lines contribute nothing.  Header                  *)
(* claim_no,patient,amount with line CLM-100,Jane Roe,15000.50 gives       *)
(* claim_number CLM-100, patient_name Jane Roe, claim_amount 15000.50.     *)
(***************************************************************************)
RECURSIVE Commas(_)
Commas(line) ==
    IF line = "" THEN 0
    ELSE (IF CharAt(line, 1) = "," THEN 1 ELSE 0) + Commas(Tail(line))

HeaderLine(file_content) == Split(Strip(file_content), "\n")[1]

\* The data lines that are not blank and have as many cells as the header.
RetainedLines(file_content) ==
    SelectSeq(Tail(Split(Strip(file_content), "\n")),
              LAMBDA line : /\ Strip(line) # ""
                            /\ Commas(line) = Commas(HeaderLine(file_content)))

Cells(line) == StripAll(Split(line, ","))

Max(S) == CHOOSE x \in S : \A y \in S : x >= y

\* The cell of the line under the column named col after normalisation (the
\* last such column when several carry the name), Absent when there is none.
CellUnder(col, header_line, line) ==
    LET named == {j \in DOMAIN Cells(header_line) :
                     NormalizeHeader(Cells(header_line)[j]) = col}
    IN  IF named = {} THEN Absent ELSE Cells(line)[Max(named)]

\* The value the field is to get, Absent when it is to be left out.
ExpectedField(field, file_content) ==
    LET retained == RetainedLines(file_content)
        synonyms == column_mappings[field]
        cell(k) == CellUnder(synonyms[k], HeaderLine(file_content), retained[1])
        filled == IF retained = <<>> THEN {}
                  ELSE {k \in DOMAIN synonyms : cell(k) \notin {Absent, ""}}
    IN  IF filled = {} THEN Absent ELSE cell(Min(filled))

CsvExtracted(loc) == loc.pc = "validate_entity_data" /\ "file_content" \in DOMAIN loc

C21_FirstRowFirstSynonym ==
    \A w \in Workers : CsvExtracted(inv[w]) =>
        LET parsed_data == inv[w].processing_result.parsed_data
        IN  /\ \A field \in ClaimFields :
                  Get(parsed_data, field, Absent) = ExpectedField(field, inv[w].file_content)
            /\ inv[w].file_content = "claim_no,patient,amount\nCLM-100,Jane Roe,15000.50" =>
                  /\ parsed_data.claim_number = "CLM-100"
                  /\ parsed_data.patient_name = "Jane Roe"
                  /\ parsed_data.claim_amount = "15000.50"
                  /\ DOMAIN parsed_data \cap ClaimFields =
                        {"claim_number", "patient_name", "claim_amount"}

\* Extraction has read a file whose first line has no claim number under
\* the first synonym but one under a later synonym, and no reason, which
\* only its second line has.
C21_Witness ==
    \E w \in Workers :
        /\ CsvExtracted(inv[w])
        /\ inv[w].file_content = "claim_id,claim_no,reason\nCLM-7, ,\nCLM-100,Jane Roe,15000.50"
        /\ Get(inv[w].processing_result.parsed_data, "claim_number", Absent) = "CLM-7"
        /\ "denial_reason" \notin DOMAIN inv[w].processing_result.parsed_data

(***************************************************************************)
(* C22: CSV extraction keeps exactly the non-blank data lines that have as *)
(* many cells as the header, in file order, reports their number as the    *)
(* row count, and returns a result whatever the lines; the field values    *)
(* come from the first line kept.                                          *)
(***************************************************************************)
C22_MalformedRowsDropped ==
    \A w \in Workers : CsvExtracted(inv[w]) =>
        LET result == inv[w].processing_result
            retained == RetainedLines(inv[w].file_content)
            headers == Cells(HeaderLine(inv[w].file_content))
        IN  /\ result.processing_type = "csv_parsed"
            /\ Len(result.rows) = Len(retained)
            /\ result.summary.total_rows = Len(retained)
            /\ result.parsed_data.total_records = Len(retained)
            /\ \A k \in DOMAIN retained :
                  /\ DOMAIN result.rows[k] = Range(headers)
                  /\ \A h \in Range(headers) :
                        result.rows[k][h] =
                            Cells(retained[k])[Max({j \in DOMAIN headers : headers[j] = h})]
            /\ \A field \in ClaimFields :
                  field \in DOMAIN result.parsed_data =>
                      /\ retained # <<>>
                      /\ result.parsed_data[field] \in Range(Cells(retained[1]))

\* Extraction has dropped a short first line and read the next one.
C22_Witness ==
    \E w \in Workers :
        /\ CsvExtracted(inv[w])
        /\ inv[w].file_content = "claim_no,patient,amount\nA,B\nCLM-100,Jane Roe,15000.50"
        /\ Len(inv[w].processing_result.rows) = 1
        /\ inv[w].processing_result.summary.total_rows = 1
        /\ inv[w].processing_result.parsed_data.claim_number = "CLM-100"

(***************************************************************************)
(* C23: the amount conversion drops the comma separators, the rupee sign   *)
(* and "Rs." and reads the rest as a number, so that a decimal number      *)
(* written with them gets its value and "₹ 12,345.00" gets 12345.00; an    *)
(* amount float() rejects gets 0.0, and the conversion raises on no input. *)
(* (float() also reads an exponent, inf and nan.)                          *)
(***************************************************************************)
Converted(loc) == loc.pc = "execute" /\ "amount" \in DOMAIN loc

Unmarked(amount) == Replace(Replace(Replace(amount, ",", ""), "₹", ""), "Rs.", "")

C23_AmountParsingTolerant ==
    \A w \in Workers : Converted(inv[w]) =>
        LET amount == inv[w].amount
            value == inv[w].amount_numeric
        IN  /\ value # ValueError
            /\ value.kind \in {"float", "inf", "nan"}
            /\ \A marker \in AmountMarkers, d \in AmountDecimals, tail \in AmountTails :
                  amount = marker \o d[1] \o tail => value = d[2]
            /\ amount = "₹ 12,345.00" => value = [kind |-> "float", neg |-> FALSE,
                                                  m |-> 12345, e |-> 0]
            /\ PyFloat(Unmarked(amount)) = ValueError => value = Zero
            /\ amount = "not-a-number" => value = Zero

\* The conversion has read "₹ 12,345.00" as 12345.
C23_Witness ==
    \E w \in Workers :
        /\ Converted(inv[w])
        /\ inv[w].amount = "₹ 12,345.00"
        /\ inv[w].amount_numeric = [kind |-> "float", neg |-> FALSE, m |-> 12345, e |-> 0]

(***************************************************************************)
(* C24: extraction dispatches on the content type up to its first ';',     *)
(* stripped: the PDF type goes to the PDF extraction, the two spreadsheet  *)
(* types to the spreadsheet extraction and the CSV type to the CSV         *)
(* extraction, with or without parameters; every other type fails with     *)
(* "Unsupported content type: " followed by that type.                     *)
(***************************************************************************)
\* The content type without what follows its first ';'.
BareType(content_type) ==
    LET p == Find(content_type, ";", 1)
    IN  Strip(IF p = 0 THEN content_type ELSE SubSeq(content_type, 1, p - 1))

Dispatched(loc) == Called(loc, "s3_get", TRUE) /\ loc.claim_info.content_type # None

C24_DispatchOnBareType ==
    \A w \in Workers : inv[w].pc # "idle" /\ Dispatched(inv[w]) =>
        LET loc == inv[w]
            bare == BareType(loc.claim_info.content_type)
            file_content == S3Object(loc.claim_info.s3_bucket, loc.claim_info.s3_key)
        IN  /\ bare = PdfType /\ Called(loc, "extract", TRUE) =>
                  loc.processing_result = process_pdf_file(DetectedLines(file_content))
            /\ bare \in ExcelTypes =>
                  /\ Called(loc, "extract", TRUE)
                  /\ loc.processing_result = process_excel_file(file_content)
            /\ bare = CsvType =>
                  /\ Called(loc, "extract", TRUE)
                  /\ loc.processing_result = process_csv_file(file_content)
            /\ bare \notin {PdfType, CsvType} \cup ExcelTypes =>
                  /\ Called(loc, "extract", FALSE)
                  /\ ~Issued(loc, "validate")
                  /\ loc.pc = "except"
                  /\ loc.error = "Unsupported content type: " \o bare

\* A CSV type with a charset parameter has gone through the CSV extraction.
C24_Witness ==
    \E w \in Workers :
        /\ inv[w].pc # "idle" /\ Dispatched(inv[w])
        /\ inv[w].claim_info.content_type = "text/csv; charset=utf-8"
        /\ inv[w].claim_info.s3_key = "k1"
        /\ Called(inv[w], "extract", TRUE)
        /\ inv[w].processing_result.processing_type = "csv_parsed"
        /\ inv[w].processing_result.parsed_data.claim_number = "CLM-100"

(***************************************************************************)
(* C25: for a claim whose extraction found no patient name (no payer name) *)
(* the resolver, once its store calls have returned, holds the id of a row *)
(* of the claim's tenant named "Unknown Patient" ("Unknown Payer"); while  *)
(* no two resolver calls have overlapped each tenant has at most one such  *)
(* row, so that all these claims are linked to it.                         *)
(***************************************************************************)
Nameless(loc, field) == field \notin DOMAIN loc.processing_result.parsed_data

AfterPatient ==
    {"create_or_update_payer", "insert_payer", "create_denial_entity",
     "update_claim_entity", "update_claim_status", "log_success"}

AfterPayer == AfterPatient \ {"create_or_update_payer", "insert_payer"}

Placeholder(table, id, tenant_id, name) ==
    \E r \in table : /\ id \in {Get(r, "patient_id", None), Get(r, "payer_id", None)}
                     /\ r.tenant_id = tenant_id
                     /\ r.name = name

OnePlaceholderEach(table, name) ==
    \A r1, r2 \in table :
        r1.name = name /\ r2.name = name /\ r1.tenant_id = r2.tenant_id => r1 = r2

C25_PlaceholderResolved ==
    /\ \A w \in Workers :
          /\ inv[w].pc \in AfterPatient /\ Nameless(inv[w], "patient_name") =>
                /\ inv[w].patient_id # None
                /\ Placeholder(patients, inv[w].patient_id,
                               inv[w].claim_info.tenant_id, "Unknown Patient")
          /\ inv[w].pc \in AfterPayer /\ Nameless(inv[w], "hospital_name") =>
                /\ inv[w].payer_id # None
                /\ Placeholder(payers, inv[w].payer_id,
                               inv[w].claim_info.tenant_id, "Unknown Payer")
    /\ ~overlap.patients => OnePlaceholderEach(patients, "Unknown Patient")
    /\ ~overlap.payers => OnePlaceholderEach(payers, "Unknown Payer")
    /\ \A c \in DOMAIN claims :
          /\ claims[c].patient_id # None =>
                Placeholder(patients, claims[c].patient_id,
                            claims[c].tenant_id, "Unknown Patient")
          /\ claims[c].payer_id # None =>
                Placeholder(payers, claims[c].payer_id,
                            claims[c].tenant_id, "Unknown Payer")

\* Two claims of one tenant, neither with a name, are linked to the same
\* placeholder patient and the same placeholder payer.
C25_Witness ==
    \E c1, c2 \in DOMAIN claims :
        /\ c1 # c2 /\ claims[c1].tenant_id = claims[c2].tenant_id
        /\ claims[c1].patient_id # None /\ claims[c1].patient_id = claims[c2].patient_id
        /\ claims[c1].payer_id # None /\ claims[c1].payer_id = claims[c2].payer_id
        /\ Cardinality(patients) = 1 /\ Cardinality(payers) = 1
        /\ \A r \in patients : r.name = "Unknown Patient"
        /\ \A r \in payers : r.name = "Unknown Payer"

(***************************************************************************)
(* C28 as stated: every claim_amount of a claim and every denied_amount of *)
(* a denial is a nonnegative number.                                       *)
(***************************************************************************)
Nonnegative(amount) == amount.kind = "float" /\ (amount.neg => amount.m = 0)

C28_AmountsNonnegative ==
    /\ \A c \in DOMAIN claims : Nonnegative(claims[c].claim_amount)
    /\ \A r \in denials : Nonnegative(r.denied_amount)

(***************************************************************************)
(* C30: a spreadsheet claim with a tenant, a hospital and a file name      *)
(* passes validation although its extraction is flagged for manual         *)
(* processing and has no field; an invocation that returns success, alone  *)
(* on the claim, leaves it DENIED, named after its file, linked to the     *)
(* rows "Unknown Patient" and "Unknown Payer" and to a denial with reason  *)
(* "Reason not specified" and amount 0.                                    *)
(***************************************************************************)
Spreadsheet(loc) ==
    /\ loc.claim_id \in DOMAIN claims
    /\ loc.claim_info # <<>>
    /\ BareType(loc.claim_info.content_type) \in ExcelTypes

StepOf(op) ==
    CASE op = "select_claim"                        -> 1
      [] op = "s3_get"                              -> 2
      [] op = "extract"                             -> 3
      [] op = "validate"                            -> 4
      [] op \in {"select_patient", "insert_patient"} -> 5
      [] op \in {"select_payer", "insert_payer"}     -> 6
      [] op = "insert_denial"                       -> 7
      [] op = "update_claim"                        -> 8
      [] op = "update_status"                       -> 9
      [] op = "mark_review"                         -> 10
      [] op = "audit"                               -> 11

PipelineSteps == 1..9

InOrder(trace) ==
    \A j \in DOMAIN trace :
        LET k == StepOf(trace[j].op)
        IN  /\ \A i \in 1..(j - 1) :
                  \/ StepOf(trace[i].op) < k
                  \/ /\ StepOf(trace[i].op) = k
                     /\ i = j - 1
                     /\ trace[i].op \in {"select_patient", "select_payer"}
                     /\ trace[j].op \in {"insert_patient", "insert_payer"}
            /\ k \in PipelineSteps =>
                  /\ \A i \in 1..(j - 1) : trace[i].ok
                  /\ \A earlier \in 1..(k - 1) :
                        \E i \in 1..(j - 1) : StepOf(trace[i].op) = earlier
            /\ ~trace[j].ok /\ k \in PipelineSteps =>
                  \A i \in (j + 1)..Len(trace) : trace[i].op \in {"mark_review", "audit"}

C26_StepsInFixedOrder == \A w \in Workers : InOrder(inv[w].trace)

\* An invocation went through every step up to the denial insert, which
\* failed; the manual-review write and the audit append followed.
C26_Witness ==
    \E w \in Workers :
        /\ HasReturned(w)
        /\ [i \in DOMAIN inv[w].trace |-> inv[w].trace[i].op] =
              <<"select_claim", "s3_get", "extract", "validate", "select_patient",
                "insert_patient", "select_payer", "insert_payer", "insert_denial",
                "mark_review", "audit">>
        /\ Called(inv[w], "insert_denial", FALSE)

(***************************************************************************)
(* C27: when the manual-review write of the except clause raises, the      *)
(* invocation still makes the audit append, with status ERROR, and returns *)
(* the error result with requires_manual_review true; the claims table is  *)
(* as it was before the write.                                             *)
(***************************************************************************)
MarkFails(w) == inv[w].pc = "except" /\ Called(inv'[w], "mark_review", FALSE)

C27_FailedMarkSwallowed ==
    [][\A w \in Workers : MarkFails(w) =>
        /\ inv'[w].pc = "done"
        /\ Issued(inv'[w], "audit")
        /\ inv'[w].trace[Len(inv'[w].trace)].op = "audit"
        /\ \A entry \in agent_logs' \ agent_logs :
              entry.status = "ERROR" /\ entry.error_message = inv[w].error
        /\ Called(inv'[w], "audit", TRUE) =>
              \E entry \in agent_logs' : /\ entry.status = "ERROR"
                                         /\ entry.claim_id = inv[w].claim_id
        /\ inv'[w].result.status = "error"
        /\ inv'[w].result.requires_manual_review = TRUE
        /\ inv'[w].result.error = inv[w].error
        /\ claims' = claims
        /\ Snapshot(inv[w].claim_id)' = Snapshot(inv[w].claim_id)]_vars

\* An invocation returned the error result after its manual-review write
\* raised and its audit append went through; the claim is as it was.
C27_Witness ==
    \E w \in Workers :
        /\ HasReturned(w) /\ OnExistingClaim(w) /\ inv[w].solo
        /\ Called(inv[w], "mark_review", FALSE)
        /\ Called(inv[w], "audit", TRUE)
        /\ ErrorResultReturned(inv[w])
        /\ Snapshot(inv[w].claim_id) = inv[w].before
        /\ \E entry \in agent_logs : entry.status = "ERROR"

(***************************************************************************)
(* C29: no step removes or changes a row of patients, payers or denials (a *)
(* resolver that reuses a row leaves its table as it is; an inserted row   *)
(* has an id no row had), no step adds or removes a claim, and on a claim  *)
(* a step changes only claim_number, patient_id, payer_id, denial_id,      *)
(* claim_amount, status and error_message (updated_at is not modelled).    *)
(***************************************************************************)
WrittenColumns ==
    {"claim_number", "patient_id", "payer_id", "denial_id", "claim_amount",
     "status", "error_message"}

InsertOnly(before, after, key) ==
    /\ before \subseteq after
    /\ \A new \in after \ before : \A old \in before : new[key] # old[key]

Reuses(w, resolver, next) ==
    inv[w].pc = resolver /\ inv'[w].pc = next

C29_InsertOnlyAndClaimFrame ==
    [][/\ InsertOnly(patients, patients', "patient_id")
       /\ InsertOnly(payers, payers', "payer_id")
       /\ InsertOnly(denials, denials', "denial_id")
       /\ \A w \in Workers :
             /\ Reuses(w, "create_or_update_patient", "create_or_update_payer") =>
                   patients' = patients
             /\ Reuses(w, "create_or_update_payer", "create_denial_entity") =>
                   payers' = payers
       /\ DOMAIN claims' = DOMAIN claims
       /\ \A c \in DOMAIN claims :
             /\ DOMAIN claims'[c] = DOMAIN claims[c]
             /\ \A column \in DOMAIN claims[c] \ WrittenColumns :
                   claims'[c][column] = claims[c][column]]_vars

\* An invocation that reused the patient and the payer of an earlier one
\* returned success; the claims are those uploaded, with their file data.
C29_Witness ==
    \E w \in Workers :
        /\ HasReturned(w) /\ inv[w].result.status = "success"
        /\ ~Issued(inv[w], "insert_patient") /\ ~Issued(inv[w], "insert_payer")
        /\ Cardinality(patients) = 1 /\ Cardinality(payers) = 1
        /\ Cardinality(denials) = 2
        /\ DOMAIN claims = DOMAIN UploadedClaims
        /\ \A c \in DOMAIN claims :
              \A column \in DOMAIN claims[c] \ WrittenColumns :
                  claims[c][column] = UploadedClaims[c][column]

(***************************************************************************)
(* C31 as stated, its first half: the pipeline never reads a claim's       *)
(* current status, so no invocation holds it.                              *)
(***************************************************************************)
C31_StatusNeverRead ==
    \A w \in Workers :
        inv[w].claim_info # <<>> => "status" \notin DOMAIN inv[w].claim_info

(***************************************************************************)
(* C31 amended: the claim lookup reads the status with the other columns,  *)
(* and nothing checks it: whatever status the claim has, a status write    *)
(* that returns leaves DENIED and a manual-review write that returns       *)
(* leaves MANUAL_REVIEW_REQUIRED; so an invocation alone on the claim that *)
(* returns success leaves it DENIED, and one whose manual-review write     *)
(* returned leaves it MANUAL_REVIEW_REQUIRED, whatever it was before.      *)
(***************************************************************************)
StatusWritten(w) ==
    inv[w].pc = "update_claim_status" /\ Called(inv'[w], "update_status", TRUE)

ReviewWritten(w) ==
    /\ inv[w].pc = "except" /\ Called(inv'[w], "mark_review", TRUE)
    /\ inv[w].claim_id \in DOMAIN claims

C31_StatusOverwrittenUnchecked ==
    /\ [](\A w \in Workers :
            /\ inv[w].claim_info # <<>> =>
                  inv[w].claim_info.status = inv[w].before.status
            /\ HasReturned(w) /\ OnExistingClaim(w) /\ inv[w].solo =>
                  /\ inv[w].before.status \in ClaimStatuses
                  /\ inv[w].result.status = "success" =>
                        claims[inv[w].claim_id].status = "DENIED"
                  /\ Called(inv[w], "mark_review", TRUE) =>
                        claims[inv[w].claim_id].status = "MANUAL_REVIEW_REQUIRED")
    /\ [][\A w \in Workers :
            /\ StatusWritten(w) => claims'[inv[w].claim_id].status = "DENIED"
            /\ ReviewWritten(w) =>
                  claims'[inv[w].claim_id].status = "MANUAL_REVIEW_REQUIRED"]_vars

\* An invocation, alone on a claim that was RECOVERED, returned success and
\* the claim is DENIED.
C31_Witness ==
    \E w \in Workers :
        /\ HasReturned(w) /\ OnExistingClaim(w) /\ inv[w].solo
        /\ inv[w].before.status = "RECOVERED"
        /\ inv[w].result.status = "success"
        /\ inv[w].claim_info.status = "RECOVERED"
        /\ claims[inv[w].claim_id].status = "DENIED"

(***************************************************************************)
(* C32: two invocations running on the same claim at once can leave it     *)
(* MANUAL_REVIEW_REQUIRED although one of them returned success, and can   *)
(* both succeed and leave one of their two denial rows unreferenced.  Only *)
(* such an overlap does it: when an invocation has returned success, the   *)
(* claim is DENIED and refers to its denial unless another invocation ran  *)
(* on the claim meanwhile; the denial it inserted is in the table either   *)
(* way.  The witness shows the first state is reached,                     *)
(* C32_BothSucceedOneDenialLinked is the second (reached as well).         *)
(***************************************************************************)
Succeeded(w) == HasReturned(w) /\ inv[w].result.status = "success"

DenialsOf(claim_id) == {r \in denials : r.claim_id = claim_id}

C32_BothSucceedOneDenialLinked ==
    \E w \in Workers :
        /\ Succeeded(w) /\ ~inv[w].solo
        /\ Called(inv[w], "audit", FALSE)
        /\ \E entry \in agent_logs :
              entry.status = "SUCCESS" /\ entry.claim_id = inv[w].claim_id
        /\ claims[inv[w].claim_id].status = "DENIED"
        /\ Cardinality(DenialsOf(inv[w].claim_id)) = 2
        /\ claims[inv[w].claim_id].denial_id # inv[w].denial_id
        /\ \A c \in DOMAIN claims : claims[c].denial_id # inv[w].denial_id

(***************************************************************************)
(* C33 as stated: an invocation whose request has no claim_id, the key     *)
(* absent or its value empty, calls no table; it attempts the audit append *)
(* with claim id "unknown" and returns the error result with a null        *)
(* claim_id.                                                               *)
(***************************************************************************)
NoClaimId(loc) == loc.pc # "idle" /\ loc.claim_id \in {Absent, ""}

OnlyAudits(loc) ==
    /\ \A i \in DOMAIN loc.trace : loc.trace[i].op = "audit"
    /\ loc.pc = "done" => Len(loc.trace) = 1

TouchesNoTable(w) ==
    NoClaimId(inv'[w]) /\ inv'[w] # inv[w] =>
        UNCHANGED <<claims, patients, payers, denials>>

MissingClaimIdResult(claim_id) ==
    [status |-> "error", claim_id |-> claim_id,
     error |-> "Missing claim_id in event", requires_manual_review |-> TRUE]

AuditedAs(loc, claim_id) ==
    Called(loc, "audit", TRUE) =>
        \E entry \in agent_logs : /\ entry.claim_id = claim_id
                                  /\ entry.status = "ERROR"
                                  /\ entry.error_message = "Missing claim_id in event"

C33_NoClaimIdAuditedAsUnknown ==
    /\ [](\A w \in Workers : NoClaimId(inv[w]) =>
            /\ OnlyAudits(inv[w])
            /\ HasReturned(w) =>
                  /\ inv[w].result = MissingClaimIdResult(None)
                  /\ AuditedAs(inv[w], "unknown"))
    /\ [][\A w \in Workers : TouchesNoTable(w)]_vars

(***************************************************************************)
(* C33 amended: such an invocation calls no table and returns the error    *)
(* result with requires_manual_review true; when the key is absent the     *)
(* audit append is attempted with claim id "unknown" and the result's      *)
(* claim_id is null, and when the value is the empty string both carry the *)
(* empty string.                                                           *)
(***************************************************************************)
C33_NoClaimIdCallsNoTable ==
    /\ [](\A w \in Workers : NoClaimId(inv[w]) =>
            /\ OnlyAudits(inv[w])
            /\ HasReturned(w) =>
                  /\ inv[w].result.status = "error"
                  /\ inv[w].result.requires_manual_review = TRUE
                  /\ inv[w].claim_id = Absent =>
                        /\ inv[w].result = MissingClaimIdResult(None)
                        /\ AuditedAs(inv[w], "unknown")
                  /\ inv[w].claim_id = "" =>
                        /\ inv[w].result = MissingClaimIdResult("")
                        /\ AuditedAs(inv[w], ""))
    /\ [][\A w \in Workers : TouchesNoTable(w)]_vars

\* An invocation with an empty claim_id returned; its audit append went
\* through, under the empty id.
C33_Witness ==
    \E w \in Workers :
        /\ HasReturned(w) /\ inv[w].claim_id = ""
        /\ Called(inv[w], "audit", TRUE)
        /\ inv[w].result.claim_id = ""
        /\ \E entry \in agent_logs : entry.claim_id = "" /\ entry.status = "ERROR"
        /\ claims = UploadedClaims /\ patients = {} /\ payers = {} /\ denials = {}

(***************************************************************************)
(* C34 as stated: the payer of a claim is resolved under the extracted     *)
(* hospital name alone: two linked claims of one tenant have the same      *)
(* payer row when their hospital names are equal up to letter case and     *)
(* different payer rows when they are not, whatever their other fields.    *)
(***************************************************************************)
\* The hospital name extracted from each claim's file, in lower case.
ExtractedHospitals ==
    {<<c, Lower(Get(process_csv_file(S3Object(HospitalClaims[c].s3_bucket,
                                              HospitalClaims[c].s3_key)).parsed_data,
                    "hospital_name", Absent))>> : c \in DOMAIN HospitalClaims}

ExtractedHospital(c) == (CHOOSE p \in ExtractedHospitals : p[1] = c)[2]

\* The linked claims, each with its tenant, its extracted hospital name in
\* lower case, and its payer.
LinkedClaims ==
    {[claim_id |-> c, tenant_id |-> claims[c].tenant_id,
      hospital |-> ExtractedHospital(c), payer_id |-> claims[c].payer_id] :
        c \in {d \in DOMAIN claims : claims[d].payer_id # None}}

SameHospital(l, m) == l.tenant_id = m.tenant_id /\ l.hospital = m.hospital

PayerUnderHospitalName(l) ==
    \E r \in payers : /\ r.payer_id = l.payer_id
                      /\ r.tenant_id = l.tenant_id
                      /\ Lower(r.name) = l.hospital

C34_PayerKeyedByHospitalName ==
    LET linked == LinkedClaims
    IN  \A l, m \in linked :
            /\ PayerUnderHospitalName(l)
            /\ SameHospital(l, m) => l.payer_id = m.payer_id
            /\ ~SameHospital(l, m) => l.payer_id # m.payer_id

(***************************************************************************)
(* C34 amended: the same, the two claims of one hospital name having the   *)
(* same payer row provided no two payer resolutions have overlapped.       *)
(***************************************************************************)
C34_PayerKeyedByHospitalNameUnlessRaced ==
    LET linked == LinkedClaims
    IN  \A l, m \in linked :
            /\ PayerUnderHospitalName(l)
            /\ SameHospital(l, m) /\ ~overlap.payers => l.payer_id = m.payer_id
            /\ ~SameHospital(l, m) => l.payer_id # m.payer_id

\* Two claims of one tenant and one patient, of two hospitals, are linked
\* to the same patient row and to two payer rows.
C34_Witness ==
    /\ Cardinality(patients) = 1 /\ Cardinality(payers) = 2
    /\ \E l, m \in LinkedClaims :
        /\ l.tenant_id = m.tenant_id /\ l.hospital # m.hospital
        /\ l.payer_id # m.payer_id
        /\ claims[l.claim_id].patient_id = claims[m.claim_id].patient_id

(***************************************************************************)
(* C35: the database-initialisation handler runs the five batches in the   *)
(* order schema, indexes, triggers, default data, views; a batch takes     *)
(* effect whole, once all its statements were executed, or not at all; the *)
(* handler returns 200 only when the five batches are committed and 500,   *)
(* never raising, after any failure; when secret_name or cluster_endpoint  *)
(* is missing it opens no connection; committed batches stay committed.    *)
(***************************************************************************)
Committed(database, batch) == Statements(batch) \subseteq database.applied

Untouched(database, batch) == Statements(batch) \cap database.applied = {}

CommittedBatches(database) ==
    {i \in 1..Len(Batches) : Committed(database, Batches[i])}

\* The committed batches are the first ones, and the others left no trace.
InBatchOrder(database) ==
    /\ \A i \in 1..Len(Batches) :
          Committed(database, Batches[i]) \/ Untouched(database, Batches[i])
    /\ \A i, j \in 1..Len(Batches) :
          i < j /\ Committed(database, Batches[j]) => Committed(database, Batches[i])

MissingParameter(event) ==
    \/ ~Truthy(Get(event, "secret_name", None))
    \/ ~Truthy(Get(event, "cluster_endpoint", None))

InitReturned(loc) == loc.pc = "returned"

C35_BatchesCommitInOrderOr500 ==
    /\ [](LET loc == inv[1]
          IN  /\ InBatchOrder(loc.database)
              /\ loc.database.pending \subseteq Statements(Batches[IF loc.batch = 0 THEN 1 ELSE loc.batch])
              /\ loc.pc = "commit" => loc.database.pending = Statements(Batches[loc.batch])
              /\ MissingParameter(loc.event) =>
                    loc.connection = "none" /\ loc.credentials = None
              /\ InitReturned(loc) =>
                    /\ loc.result.statusCode \in {200, 500}
                    /\ loc.database.pending = {}
                    /\ loc.result.statusCode = 200 =>
                          CommittedBatches(loc.database) = 1..Len(Batches)
                    /\ MissingParameter(loc.event) =>
                          loc.result.statusCode = 500 /\ loc.database = EmptyDatabase)
    /\ [][LET loc == inv[1]
              new == inv'[1]
          IN  /\ CommittedBatches(loc.database) \subseteq CommittedBatches(new.database)
              /\ CommittedBatches(new.database) # CommittedBatches(loc.database) =>
                    /\ loc.database.pending = Statements(Batches[loc.batch])
                    /\ CommittedBatches(new.database) =
                          CommittedBatches(loc.database) \cup {loc.batch}
              /\ InitReturned(new) /\ new.result.statusCode = 200 =>
                    loc.pc = "close" /\ new.connection = "closed"
              /\ ~InitReturned(loc) /\ loc.pc # "close" /\ InitReturned(new) =>
                    new.result.statusCode = 500]_vars

\* The triggers batch failed on its second statement: the handler returned
\* 500, the first statement left no trace, and the two batches before stay.
C35_Witness ==
    LET loc == inv[1]
    IN  /\ InitReturned(loc) /\ loc.result.statusCode = 500
        /\ loc.result.body.message = StatementError
        /\ loc.connection = "open" /\ loc.batch = 3 /\ loc.executed = 1
        /\ CommittedBatches(loc.database) = {1, 2}
        /\ loc.database = [applied |-> Statements("schema_sql") \cup Statements("indexes_sql"),
                           pending |-> {}]
====
